---- MODULE Spec2Model ----
(***************************************************************************)
(* SimBuild: the log-stream session (devices/manager.ts), the build        *)
(* session (xcode/build.ts) and the commands of extension.ts that drive    *)
(* them.  Subprocesses are records; every event handler attached to a      *)
(* subprocess is one action.                                               *)
(***************************************************************************)
EXTENDS Integers, Sequences, FiniteSets, TLC

\* ---------------------------------------------------------------- bounds
MaxLogStarts == 2     \* startLogStream calls explored (caps logProcessId)
MaxRuns      == 2     \* runBuild invocations explored (build, run, clean commands)
MaxOutput    == 3     \* lines of stdout and tokens of stderr one build is followed for

\* ------------------------------------------------------------- constants
Null      == 0        \* a null ChildProcess handle
Undefined == "undefined"
NoDevice  == [type |-> "undefined", state |-> "undefined"]   \* an undefined Device

DeviceTypes == {"simulator", "device"}
LogModes    == {"stdout", "system", "both"}

\* the Xcode projects of the workspace and what xcodebuild -list reports
ProjectNames == {"App"}
SchemesOf(project) == IF project = "Lib" THEN {"C++"} ELSE {"AppScheme"}

\* the devices listAllDevices may report
Devices == { [type |-> "simulator", state |-> "Booted"],
             [type |-> "simulator", state |-> "Shutdown"],
             [type |-> "device",    state |-> "Connected"] }

\* the phase keywords a build's stdout line may start with, and a line
\* that starts with none
PhaseKeywords == {"Compile", "Link"}

\* a line of xcodebuild output: the word it starts with and the path it
\* names, as its directory segments (<<>>: it names none)
Text(word) == [word |-> word, path |-> <<>>]

BuildChunks   == { <<Text("Compile")>>, <<Text("note"), Text("Link")>>, <<Text("note")>> }

\* exit codes of the close event: success, failure, killed by a signal
\* (code null), and the negative errno of a failed spawn
ExitCodes == {"0", "65", "null"}
SpawnFailureCode == "-2"

VARIABLES
    logProcess,          \* manager.ts: let logProcess
    stdoutLogProcess,    \* manager.ts: let stdoutLogProcess
    logProcessId,        \* manager.ts: let logProcessId
    logProcs,            \* every subprocess spawned by startLogStream
    onCloseCalled,       \* onClose was invoked for the stream of the latest startLogStream
    activated,           \* extension.ts: activate() has registered the commands
    currentProject,      \* extension.ts: let currentProject
    schemes,             \* extension.ts: let schemes
    currentScheme,       \* StatusBarManager._currentScheme
    currentDevice,       \* StatusBarManager._currentDevice
    isBuilding,          \* StatusBarManager._isBuilding
    currentBuildProcess, \* build.ts: let currentBuildProcess
    runs,                \* the runBuild invocations in flight, with their subprocess
    runCount,            \* runBuild invocations made so far
    observed,            \* one build() call followed in detail: its options, buildOutput,
                         \* errorOutput and the onProgress messages it has sent
    catalog,             \* one listAllDevices() call: where it is and what it has got
    deviceOp,            \* one device operation (boot, install, launch, terminate)
    sorting,             \* simulator/list.ts: the simulators one sort compares and
                         \* what its comparator has answered
    pending,             \* the refresh, initialize, selectScheme and selectDevice
                         \* invocations in flight
    last                 \* the operation or event handler that ran last

logVars   == <<logProcess, stdoutLogProcess, logProcessId, logProcs, onCloseCalled>>
buildVars == <<activated, currentProject, schemes, currentScheme, currentDevice,
               isBuilding, currentBuildProcess, runs, runCount>>
vars      == <<logProcess, stdoutLogProcess, logProcessId, logProcs, onCloseCalled,
               activated, currentProject, schemes, currentScheme, currentDevice,
               isBuilding, currentBuildProcess, runs, runCount, observed,
               catalog, deviceOp, sorting, pending, last>>
managerVars == <<catalog, deviceOp, sorting>>

\* ------------------------------------------------------------ text model
\* the chunks a 'data' event may carry, as character sequences: one line,
\* two lines in one chunk, a line with its newline, only blank lines
Chunks == { <<"a">>, <<"a", "\n", "b">>, <<"b", "\n">>, <<" ", "\n">> }

\* data.toString().split('\n'): the pieces between newlines, empty ones kept
RECURSIVE SplitAcc(_, _, _)
SplitAcc(text, cur, acc) ==
    IF text = <<>> THEN Append(acc, cur)
    ELSE IF Head(text) = "\n" THEN SplitAcc(Tail(text), <<>>, Append(acc, cur))
    ELSE SplitAcc(Tail(text), Append(cur, Head(text)), acc)

SplitLines(text) == SplitAcc(text, <<>>, <<>>)

\* line.trim() is truthy: the line has a non-whitespace character
TrimTruthy(line) == \E i \in 1..Len(line) : line[i] # " " /\ line[i] # "\n"

\* ------------------------------------------------------------- callbacks
Call(cb, gen, arg) == [cb |-> cb, gen |-> gen, arg |-> arg]

\* the calls of one callback among those a step made
Invoked(calls, cb) == {i \in 1..Len(calls) : calls[i].cb = cb}

\* for (const line of lines) if (line.trim()) onLog(prefix + line)
RECURSIVE LogLines(_, _, _)
LogLines(lines, gen, tag) ==
    IF lines = <<>> THEN <<>>
    ELSE IF TrimTruthy(Head(lines))
         THEN <<Call("onLog", gen, <<tag, Head(lines)>>)>> \o LogLines(Tail(lines), gen, tag)
         ELSE LogLines(Tail(lines), gen, tag)

\* ----------------------------------------------------------- subprocesses
\* logProcs maps the id of every subprocess that can still deliver an event
\* or is still referenced by a handle to its record.  The subprocesses of
\* generation g have the ids 2g-1 (first spawn) and 2g (second spawn).
NewProc(gen, devType, mode, handlers, stream, ok) ==
    [gen |-> gen, devType |-> devType, mode |-> mode, handlers |-> handlers,
     stream |-> stream, spawnOk |-> ok, errored |-> FALSE, closed |-> FALSE,
     killSignal |-> "none"]

\* child.kill('SIGTERM')
Kill(procs, p) == [procs EXCEPT ![p].killSignal = "SIGTERM"]

\* a subprocess that was spawned, has not closed and was not sent a signal
Live(proc) == proc.spawnOk /\ ~proc.closed /\ proc.killSignal = "none"

\* a closed subprocess that no handle refers to is garbage: it delivers no
\* further event and the program cannot reach it
Reap(procs, lp, sp) ==
    [p \in {q \in DOMAIN procs : ~procs[q].closed \/ q \in {lp, sp}} |-> procs[p]]

\* a path is the sequence of its segments, a segment and any other name the
\* sequence of its parts; text is a sequence of tokens
NoPath  == <<>>       \* appPath: undefined
NoError == <<>>       \* error: undefined
GenericError == <<"Build failed">>
SpawnError   == <<"err.message">>

\* a BuildResult ("defined" is false where there is none)
NoResult == [defined |-> FALSE, success |-> FALSE, appPath |-> NoPath, error |-> NoError]

Result(success, appPath, error) ==
    [defined |-> TRUE, success |-> success, appPath |-> appPath, error |-> error]

\* what a step of the build session did: whether the promise of build() was
\* settled before and after the step, the result the step passed to resolve
\* and whether the step spawned xcodebuild
NoInfo == [settledBefore |-> FALSE, settledAfter |-> FALSE, resolved |-> NoResult,
           spawned |-> FALSE, code |-> ""]

NoStep == [op |-> "init", proc |-> Null, gen |-> 0, ret |-> FALSE, calls |-> <<>>,
           sigterm |-> {}, mode |-> "none", devType |-> "none", info |-> NoInfo]

Step(op, p, gen, ret, calls, sigterm, mode, devType) ==
    [op |-> op, proc |-> p, gen |-> gen, ret |-> ret, calls |-> calls,
     sigterm |-> sigterm, mode |-> mode, devType |-> devType, info |-> NoInfo]

BuildStep(op, r, ret, calls, sigterm, info) ==
    [op |-> op, proc |-> r, gen |-> 0, ret |-> ret, calls |-> calls,
     sigterm |-> sigterm, mode |-> "none", devType |-> "none", info |-> info]

EventStep(op, p, calls) ==
    Step(op, p, logProcs[p].gen, FALSE, calls, {}, logProcs[p].mode, logProcs[p].devType)

\* ------------------------------------------------------ stopLogStream
\* stopLogStream on the handles lp (logProcess) and sp (stdoutLogProcess):
\* the subprocess table, both handles, the return value and the
\* subprocesses kill('SIGTERM') was called on
StopResultNoStdout(procs, lp, sp) ==
    [procs   |-> IF lp # Null THEN Kill(procs, lp) ELSE procs,
     logProcess |-> Null, stdoutLogProcess |-> sp,
     stopped |-> lp # Null,
     sigterm |-> {lp} \ {Null}]

StopResult(procs, lp, sp) ==
    LET afterStdout == IF sp # Null THEN Kill(procs, sp) ELSE procs
    IN  [procs   |-> IF lp # Null THEN Kill(afterStdout, lp) ELSE afterStdout,
         logProcess |-> Null, stdoutLogProcess |-> Null,
         stopped |-> (sp # Null \/ lp # Null),
         sigterm |-> {lp, sp} \ {Null}]

StopLogStream ==
    LET r == StopResult(logProcs, logProcess, stdoutLogProcess)
    IN  /\ logProcs' = Reap(r.procs, r.logProcess, r.stdoutLogProcess)
        /\ stdoutLogProcess' = r.stdoutLogProcess
        /\ logProcess' = r.logProcess
        /\ last' = Step("stopLogStream", Null, logProcessId, r.stopped, <<>>,
                        r.sigterm, "none", "none")
        /\ UNCHANGED <<logProcessId, onCloseCalled, buildVars, observed, managerVars, pending>>

IsLogStreamRunning == logProcess # Null \/ stdoutLogProcess # Null

\* ------------------------------------------------------ startLogStream
\* "Stop any existing log stream": the first statement of startLogStream
StartPreludeNoStop(procs, lp, sp) ==
    [procs |-> procs, logProcess |-> lp, stdoutLogProcess |-> sp,
     stopped |-> FALSE, sigterm |-> {}]

StartPrelude(procs, lp, sp) == StopResult(procs, lp, sp)

\* the subprocesses startLogStream spawns, in spawn order, for a target
\* kind and a mode; ok1/ok2 say whether the OS could start each
Spawned(gen, devType, mode, ok1, ok2) ==
    IF devType = "simulator"
    THEN (IF mode \in {"stdout", "both"}
          THEN <<NewProc(gen, devType, mode, "stdout", "process-output", ok1)>>
          ELSE <<>>)
         \o
         (IF mode \in {"system", "both"}
          THEN <<NewProc(gen, devType, mode, "log", "system-log", ok2)>>
          ELSE <<>>)
    ELSE IF mode \in {"stdout", "both"}
         THEN <<NewProc(gen, devType, mode, "log", "process-output", ok1)>>
         ELSE <<NewProc(gen, devType, mode, "log", "system-log", ok1)>>

\* the value of stdoutLogProcess when startLogStream returns (sp: after the
\* prelude)
StartStdoutHandle(base, devType, mode, sp) ==
    IF devType = "simulator" /\ mode \in {"stdout", "both"} THEN base + 1 ELSE sp

\* the value of logProcess when startLogStream returns (lp: after the prelude)
StartLogHandle(base, devType, mode, lp) ==
    IF devType = "simulator"
    THEN CASE mode = "stdout" -> base + 1      \* logProcess = stdoutLogProcess
           [] mode = "both"   -> base + 2
           [] mode = "system" -> base + 1
           [] OTHER           -> lp
    ELSE base + 1

\* the return value: true at the end of the simulator 'stdout' branch,
\* otherwise false exactly if logProcess is still null
StartReturnsWrongHandle(devType, mode, lp, sp) == sp # Null

StartReturns(devType, mode, lp, sp) ==
    IF devType = "simulator" /\ mode = "stdout" THEN TRUE ELSE lp # Null

\* const currentProcessId = ++logProcessId
NextGenerationSame(id) == id

NextGeneration(id) == id + 1

StartLogStreamState(devType, mode, ok1, ok2) ==
    LET pre  == StartPrelude(logProcs, logProcess, stdoutLogProcess)
        kept == Reap(pre.procs, pre.logProcess, pre.stdoutLogProcess)
        gen  == NextGeneration(logProcessId)
        base == 2 * logProcessId
        new  == Spawned(gen, devType, mode, ok1, ok2)
        lp   == StartLogHandle(base, devType, mode, pre.logProcess)
        sp   == StartStdoutHandle(base, devType, mode, pre.stdoutLogProcess)
    IN  /\ logProcessId' = gen
        /\ onCloseCalled' = FALSE
        /\ logProcs' = [p \in DOMAIN kept \cup {base + k : k \in 1..Len(new)} |->
                           IF p \in DOMAIN kept THEN kept[p] ELSE new[p - base]]
        /\ stdoutLogProcess' = sp
        /\ logProcess' = lp

StartLogStreamEff(devType, mode, ok1, ok2, op) ==
    /\ StartLogStreamState(devType, mode, ok1, ok2)
    /\ last' = Step(op, Null, logProcessId',
                    StartReturns(devType, mode, logProcess', stdoutLogProcess'), <<>>,
                    StartPrelude(logProcs, logProcess, stdoutLogProcess).sigterm,
                    mode, devType)

StartLogStream(devType, mode, ok1, ok2) ==
    /\ logProcessId < MaxLogStarts
    /\ StartLogStreamEff(devType, mode, ok1, ok2, "startLogStream")
    /\ UNCHANGED <<buildVars, observed, managerVars, pending>>

\* ------------------------------------------------- subprocess events
\* if (currentProcessId !== logProcessId) return;
IsCurrentNoGuard(p) == TRUE

IsCurrent(p) == logProcs[p].gen = logProcessId

\* a spawned subprocess writes output until it closes; one that the OS could
\* not start emits 'error' and then 'close'
CanEmitData(p)  == logProcs[p].spawnOk /\ ~logProcs[p].closed
CanEmitClose(p) == ~logProcs[p].closed /\ (logProcs[p].spawnOk \/ logProcs[p].errored)
CanEmitError(p) == ~logProcs[p].spawnOk /\ ~logProcs[p].errored /\ ~logProcs[p].closed

LogStdoutData(p, chunk) ==
    /\ CanEmitData(p)
    /\ last' = EventStep("stdout", p,
                    IF IsCurrent(p)
                    THEN LogLines(SplitLines(chunk), logProcs[p].gen, "")
                    ELSE <<>>)
    /\ UNCHANGED <<logVars, buildVars, observed, managerVars, pending>>

LogStderrData(p, chunk) ==
    /\ CanEmitData(p)
    /\ last' = EventStep("stderr", p,
                    IF ~IsCurrent(p) THEN <<>>
                    ELSE IF logProcs[p].handlers = "stdout"
                         THEN LogLines(SplitLines(chunk), logProcs[p].gen, "[stderr] ")
                         ELSE <<Call("onError", logProcs[p].gen, <<chunk>>)>>)
    /\ UNCHANGED <<logVars, buildVars, observed, managerVars, pending>>

\* the handles after the 'close' handler of subprocess p
CloseStdoutHandle(p) ==
    IF IsCurrent(p) /\ logProcs[p].handlers = "stdout" THEN Null ELSE stdoutLogProcess

CloseLogHandle(p) ==
    IF IsCurrent(p) /\ logProcs[p].handlers = "log" THEN Null ELSE logProcess

CloseCallsAlways(p) ==
    IF ~IsCurrent(p) THEN <<>> ELSE <<Call("onClose", logProcs[p].gen, <<>>)>>

CloseCalls(p) ==
    IF ~IsCurrent(p) THEN <<>>
    ELSE IF logProcs[p].handlers = "stdout" /\ logProcs[p].mode # "stdout" THEN <<>>
    ELSE <<Call("onClose", logProcs[p].gen, <<>>)>>

LogClose(p) ==
    /\ CanEmitClose(p)
    /\ stdoutLogProcess' = CloseStdoutHandle(p)
    /\ logProcess' = CloseLogHandle(p)
    /\ logProcs' = Reap([logProcs EXCEPT ![p].closed = TRUE],
                        CloseLogHandle(p), CloseStdoutHandle(p))
    /\ last' = EventStep("close", p, CloseCalls(p))
    /\ onCloseCalled' = (onCloseCalled \/ Invoked(CloseCalls(p), "onClose") # {})
    /\ UNCHANGED <<logProcessId, buildVars, observed, managerVars, pending>>

\* the handles after the 'error' handler of subprocess p
ErrorStdoutHandle(p) == stdoutLogProcess

ErrorLogHandle(p) ==
    IF IsCurrent(p) /\ logProcs[p].handlers = "log" THEN Null ELSE logProcess

ErrorCalls(p) ==
    IF IsCurrent(p) THEN <<Call("onError", logProcs[p].gen, <<"err.message">>)>> ELSE <<>>

LogError(p) ==
    /\ CanEmitError(p)
    /\ stdoutLogProcess' = ErrorStdoutHandle(p)
    /\ logProcess' = ErrorLogHandle(p)
    /\ logProcs' = [logProcs EXCEPT ![p].errored = TRUE]
    /\ last' = EventStep("error", p, ErrorCalls(p))
    /\ UNCHANGED <<logProcessId, onCloseCalled, buildVars, observed, managerVars, pending>>

\* the build() call followed in detail (none in Init)
NoObserved == [options |-> [project |-> Undefined, scheme |-> Undefined,
                            device |-> NoDevice, derivedDataPath |-> <<>>],
               buildOutput |-> <<>>, errorOutput |-> <<>>, progress |-> <<>>,
               code |-> "", listing |-> [ok |-> FALSE, names |-> <<>>]]

\* the parts of a name
Spell(name) ==
    CASE name = "AppScheme" -> <<"App", "Scheme">>
      [] name = "App"       -> <<"App">>
      [] name = "C++"       -> <<"C", "+", "+">>
      [] OTHER              -> <<name>>

\* new RegExp(`(/[^\\s]+/${productDir}/${options.scheme}\\.app)(?:\\s|$)`, 'm')
\* takes the scheme name as pattern text: a quantifier that directly follows
\* a quantifier is a SyntaxError ("nothing to repeat")
Quantifiers == {"+", "*"}

PatternThrows(scheme) ==
    \E i \in 1..(Len(Spell(scheme)) - 1) :
        Spell(scheme)[i] \in Quantifiers /\ Spell(scheme)[i + 1] \in Quantifiers

\* ------------------------------------------------ extension: activate
\* activate(): the first initialize() runs before any command is registered.
\* found: what findXcodeProjects returns; picked: the quick-pick answer when
\* there are several; listed: what getSchemes returns; savedScheme and
\* savedDevice: the workspace state; autoSelect: simbuild.autoSelectScheme
InitProject(found, picked) ==
    IF Cardinality(found) = 1 THEN CHOOSE p \in found : TRUE
    ELSE IF picked # Undefined THEN picked
    ELSE currentProject

InitScheme(listed, savedScheme, autoSelect) ==
    IF savedScheme # Undefined /\ savedScheme \in listed THEN savedScheme
    ELSE IF autoSelect /\ Cardinality(listed) = 1 THEN CHOOSE n \in listed : TRUE
    ELSE currentScheme

Activate(found, picked, listed, savedScheme, autoSelect, savedDevice) ==
    /\ ~activated
    /\ activated' = TRUE
    /\ IF found = {}
       THEN UNCHANGED <<currentProject, schemes, currentScheme, currentDevice>>
       ELSE /\ currentProject' = InitProject(found, picked)
            /\ IF currentProject' = Undefined
               THEN UNCHANGED <<schemes, currentScheme, currentDevice>>
               ELSE /\ listed \in {{}, SchemesOf(currentProject')}
                    /\ schemes' = listed
                    /\ currentScheme' = InitScheme(listed, savedScheme, autoSelect)
                    /\ currentDevice' = IF savedDevice # NoDevice THEN savedDevice
                                        ELSE currentDevice
    /\ last' = BuildStep("activate", Null, FALSE, <<>>, {}, NoInfo)
    /\ UNCHANGED <<isBuilding, currentBuildProcess, runs, runCount, logVars, observed, managerVars, pending>>

\* -------------------------------------------------------- build session
\* one runBuild invocation: where it is suspended (pc) and, once build() has
\* spawned xcodebuild, the state of that subprocess and of build()'s promise
NewRun(runAfterBuild, clean) ==
    [pc |-> "start", runAfterBuild |-> runAfterBuild, clean |-> clean,
     project |-> Undefined, schemeItems |-> {}, deviceItems |-> {},
     spawned |-> FALSE, spawnOk |-> FALSE, errored |-> FALSE, closed |-> FALSE,
     killSignal |-> "none", lastPhase |-> "", settled |-> FALSE,
     device |-> NoDevice, appPath |-> NoPath, completed |-> <<>>]

\* an invocation that has returned and whose subprocess, if any, has closed
\* leaves nothing behind
Finished(rec) == rec.pc = "done" /\ (~rec.spawned \/ rec.closed)

\* the suspension points of runApp: the commands of bootSimulator,
\* openSimulatorApp and installApp (first and fallback), getBundleIdentifier
RunAppPcs == {"boot", "open", "install", "installFallback", "bundleId"}

\* of an invocation's locals only those still read after the suspension
\* point it is at are kept
Locals(rec) ==
    LET fresh == NewRun(FALSE, FALSE)
    IN  IF rec.pc \in RunAppPcs
        THEN [fresh EXCEPT !.pc = rec.pc, !.spawned = TRUE, !.spawnOk = TRUE,
                           !.closed = TRUE, !.settled = TRUE,
                           !.killSignal = rec.killSignal, !.device = rec.device,
                           !.appPath = rec.appPath, !.completed = rec.completed]
        ELSE [rec EXCEPT !.runAfterBuild = IF rec.settled THEN FALSE ELSE @,
                         !.clean = IF rec.spawned THEN FALSE ELSE @,
                         !.project = IF rec.pc = "getSchemes" THEN @ ELSE Undefined,
                         !.schemeItems = IF rec.pc = "pickScheme" THEN @ ELSE {},
                         !.deviceItems = IF rec.pc = "pickDevice" THEN @ ELSE {},
                         !.lastPhase = IF rec.closed \/ ~rec.spawnOk THEN "" ELSE @]

PutRun(table, r, rec) ==
    IF Finished(rec)
    THEN [q \in DOMAIN table \ {r} |-> table[q]]
    ELSE [q \in DOMAIN table \cup {r} |-> IF q = r THEN Locals(rec) ELSE table[q]]

\* an xcodebuild subprocess that was spawned, has not closed and was not
\* sent a signal
BuildLive(rec) == rec.spawned /\ rec.spawnOk /\ ~rec.closed /\ rec.killSignal = "none"

\* stopBuild(): the new subprocess table, the handle and the return value
StopBuildResult(table, cbp) ==
    IF cbp # Null
    THEN [runs |-> PutRun(table, cbp, [table[cbp] EXCEPT !.killSignal = "SIGTERM"]),
          currentBuildProcess |-> Null, ret |-> TRUE, sigterm |-> {cbp}]
    ELSE [runs |-> table, currentBuildProcess |-> cbp, ret |-> FALSE, sigterm |-> {}]

\* the simbuild.stop command
StopCommand ==
    LET r == StopBuildResult(runs, currentBuildProcess)
    IN  /\ activated
        /\ runs' = r.runs
        /\ currentBuildProcess' = r.currentBuildProcess
        /\ isBuilding' = IF r.ret THEN FALSE ELSE isBuilding
        /\ last' = BuildStep("stopBuild", currentBuildProcess, r.ret, <<>>, r.sigterm, NoInfo)
        /\ UNCHANGED <<activated, currentProject, schemes, currentScheme, currentDevice,
                       runCount, logVars, observed, managerVars, pending>>

\* build({project: currentProject, scheme: statusBar.currentScheme!,
\* device: statusBar.currentDevice!, ...}): the call with what it is passed
BuildCall(project, scheme, device) == Call("build", 0, <<project, scheme, device>>)

\* schemes = await getSchemes(project): the call with what it answered
SchemesCall(project, listed) == Call("getSchemes", 0, <<project, listed>>)

\* runBuild from the scheme check (stage "scheme") or the device check
\* (stage "device") to its next suspension; currentScheme' and
\* currentDevice' are the selections at that point.  ok: whether the OS can
\* start xcodebuild.
Advance(r, rec, stage, ok, op) ==
    IF stage = "scheme" /\ currentScheme' = Undefined
    THEN \* if (!statusBar.currentScheme) {return;}
         /\ runs' = PutRun(runs, r, [rec EXCEPT !.pc = "done"])
         /\ last' = BuildStep(op, r, FALSE, <<>>, {}, NoInfo)
         /\ UNCHANGED <<isBuilding, currentBuildProcess>>
    ELSE IF stage = "scheme" /\ currentDevice' = NoDevice
    THEN \* await selectDevice(): await listAllDevices()
         /\ runs' = PutRun(runs, r, [rec EXCEPT !.pc = "listDevices"])
         /\ last' = BuildStep(op, r, FALSE, <<>>, {}, NoInfo)
         /\ UNCHANGED <<isBuilding, currentBuildProcess>>
    ELSE IF currentDevice' = NoDevice
    THEN \* if (!statusBar.currentDevice) {return;}
         /\ runs' = PutRun(runs, r, [rec EXCEPT !.pc = "done"])
         /\ last' = BuildStep(op, r, FALSE, <<>>, {}, NoInfo)
         /\ UNCHANGED <<isBuilding, currentBuildProcess>>
    ELSE IF currentProject' = Undefined
    THEN \* setBuilding(true); build(): options.project.type raises a TypeError
         \* before anything is spawned; catch: setBuilding(false), showErrorMessage
         /\ runs' = PutRun(runs, r, [rec EXCEPT !.pc = "done"])
         /\ isBuilding' = FALSE
         /\ last' = BuildStep(op, r, FALSE,
                              <<BuildCall(currentProject', currentScheme', currentDevice'),
                                Call("showErrorMessage", 0, <<>>)>>, {}, NoInfo)
         /\ UNCHANGED currentBuildProcess
    ELSE \* setBuilding(true); build(): spawn; currentBuildProcess = process
         /\ runs' = PutRun(runs, r, [rec EXCEPT !.pc = "build", !.spawned = TRUE,
                                                !.spawnOk = ok])
         /\ isBuilding' = TRUE
         /\ currentBuildProcess' = r
         /\ last' = BuildStep(op, r, FALSE,
                              <<BuildCall(currentProject', currentScheme', currentDevice')>>,
                              {}, [NoInfo EXCEPT !.spawned = TRUE])

\* the simbuild.build, simbuild.run and simbuild.clean commands
RunBuild(runAfterBuild, clean, ok) ==
    LET r   == runCount + 1
        rec == NewRun(runAfterBuild, clean)
    IN  /\ activated
        /\ runCount < MaxRuns
        /\ runCount' = r
        /\ UNCHANGED <<activated, currentProject, schemes, currentScheme, currentDevice,
                       logVars, observed, managerVars, pending>>
        /\ IF currentProject = Undefined
           THEN /\ last' = BuildStep("runBuild", r, FALSE, <<>>, {}, NoInfo)
                /\ UNCHANGED <<runs, isBuilding, currentBuildProcess>>
           ELSE IF currentScheme = Undefined
           THEN \* await selectScheme()
                /\ runs' = PutRun(runs, r,
                              IF schemes = {}
                              THEN [rec EXCEPT !.pc = "getSchemes", !.project = currentProject]
                              ELSE [rec EXCEPT !.pc = "pickScheme", !.schemeItems = schemes])
                /\ last' = BuildStep("runBuild", r, FALSE, <<>>, {}, NoInfo)
                /\ UNCHANGED <<isBuilding, currentBuildProcess>>
           ELSE Advance(r, rec, "scheme", ok, "runBuild")

\* selectScheme: getSchemes(currentProject) has answered
GetSchemesDone(r, listed, ok) ==
    /\ r \in DOMAIN runs
    /\ runs[r].pc = "getSchemes"
    /\ listed \in {{}, SchemesOf(runs[r].project)}
    /\ schemes' = listed
    /\ UNCHANGED <<activated, currentProject, currentScheme, currentDevice, runCount, logVars, observed, managerVars, pending>>
    /\ IF listed = {}
       THEN Advance(r, runs[r], "scheme", ok, "getSchemes")
       ELSE /\ runs' = PutRun(runs, r, [runs[r] EXCEPT !.pc = "pickScheme",
                                                       !.schemeItems = listed])
            /\ last' = BuildStep("getSchemes", r, FALSE,
                                 <<SchemesCall(runs[r].project, listed)>>, {}, NoInfo)
            /\ UNCHANGED <<isBuilding, currentBuildProcess>>

\* selectScheme: the quick pick has answered (Undefined: dismissed)
PickSchemeDone(r, selected, ok) ==
    /\ r \in DOMAIN runs
    /\ runs[r].pc = "pickScheme"
    /\ selected \in runs[r].schemeItems \cup {Undefined}
    /\ currentScheme' = IF selected # Undefined THEN selected ELSE currentScheme
    /\ UNCHANGED <<activated, currentProject, schemes, currentDevice, runCount, logVars, observed, managerVars, pending>>
    /\ Advance(r, runs[r], "scheme", ok, "pickScheme")

\* selectDevice: listAllDevices() has answered
ListDevicesDone(r, devices, ok) ==
    /\ r \in DOMAIN runs
    /\ runs[r].pc = "listDevices"
    /\ devices \in {{}, Devices}
    /\ UNCHANGED <<activated, currentProject, schemes, currentScheme, currentDevice,
                   runCount, logVars, observed, managerVars, pending>>
    /\ IF devices = {}
       THEN Advance(r, runs[r], "device", ok, "listDevices")
       ELSE /\ runs' = PutRun(runs, r, [runs[r] EXCEPT !.pc = "pickDevice",
                                                       !.deviceItems = devices])
            /\ last' = BuildStep("listDevices", r, FALSE, <<>>, {}, NoInfo)
            /\ UNCHANGED <<isBuilding, currentBuildProcess>>

\* selectDevice: the quick pick has answered (NoDevice: dismissed)
PickDeviceDone(r, selected, ok) ==
    /\ r \in DOMAIN runs
    /\ runs[r].pc = "pickDevice"
    /\ selected \in runs[r].deviceItems \cup {NoDevice}
    /\ currentDevice' = IF selected # NoDevice THEN selected ELSE currentDevice
    /\ UNCHANGED <<activated, currentProject, schemes, currentScheme, runCount, logVars, observed, managerVars, pending>>
    /\ Advance(r, runs[r], "device", ok, "pickDevice")

\* text.match(/^(Compile|Link|...)/m): the keyword of the first line of the
\* chunk that starts with one, "" if there is none
RECURSIVE PhaseMatch(_)
PhaseMatch(lines) ==
    IF lines = <<>> THEN ""
    ELSE IF Head(lines).word \in PhaseKeywords THEN Head(lines).word
    ELSE PhaseMatch(Tail(lines))

\* build(): stdout 'data' handler; onProgress is runBuild's
\* (message) => statusBar.setBuilding(true, message)
BuildStdout(r, chunk) ==
    /\ r \in DOMAIN runs
    /\ runs[r].spawned /\ runs[r].spawnOk /\ ~runs[r].closed
    /\ LET phase  == PhaseMatch(chunk)
           notify == phase # "" /\ phase # runs[r].lastPhase
       IN  /\ runs' = [runs EXCEPT ![r].lastPhase = IF notify THEN phase ELSE @]
           /\ isBuilding' = IF notify THEN TRUE ELSE isBuilding
           /\ last' = BuildStep("build.stdout", r, FALSE,
                                IF notify THEN <<Call("onProgress", 0, <<phase>>)>> ELSE <<>>,
                                {}, NoInfo)
    /\ UNCHANGED <<activated, currentProject, schemes, currentScheme, currentDevice,
                   currentBuildProcess, runCount, logVars>>

\* build(): stderr 'data' handler (the text goes to the output channel and
\* to errorOutput, which the close event reads)
BuildStderr(r) ==
    /\ r \in DOMAIN runs
    /\ runs[r].spawned /\ runs[r].spawnOk /\ ~runs[r].closed
    /\ last' = BuildStep("build.stderr", r, FALSE, <<>>, {}, NoInfo)
    /\ UNCHANGED <<buildVars, logVars>>

\* the BuildResult the close handler passes to resolve.  appPath: what the
\* three-step artifact lookup yields on the accumulated stdout; error: what
\* errorOutput.match(/error: (.+)/) yields, or 'Build failed'
CloseResult(code, appPath, error) ==
    IF code = "0" THEN Result(TRUE, appPath, NoError) ELSE Result(FALSE, NoPath, error)

\* the BuildResult the error handler passes to resolve
ErrorResult == Result(FALSE, NoPath, SpawnError)

\* runBuild after `await build(...)`: if (result.success) ... if
\* (runAfterBuild && result.appPath) await runApp(result.appPath)
RunsAppAnyResult(result, runAfterBuild) == runAfterBuild

RunsApp(result, runAfterBuild) ==
    result.success /\ runAfterBuild /\ result.appPath # NoPath

\* runApp: if (device.type === 'simulator' && device.state !== 'Booted')
NeedsBoot(device) == device.type = "simulator" /\ device.state # "Booted"

\* resolve(result) and, when it settles the promise, runBuild's continuation
\* after `await build(...)` up to its next suspension (in runApp) or return.
\* rec: the invocation after the handler's own updates; line: what the
\* handler appended to the output channel.
Settle(r, rec, result, line, op, code) ==
    IF rec.settled \/ ~result.defined
    THEN \* a settled promise ignores resolve
         /\ runs' = PutRun(runs, r, rec)
         /\ last' = BuildStep(op, r, FALSE, <<Call("outputChannel", 0, <<line>>)>>, {},
                              [NoInfo EXCEPT !.settledBefore = rec.settled,
                                             !.settledAfter = rec.settled,
                                             !.resolved = result, !.code = code])
         /\ UNCHANGED isBuilding
    ELSE LET launch == RunsApp(result, rec.runAfterBuild) /\ currentDevice # NoDevice
             boot   == NeedsBoot(currentDevice)
             pc     == IF ~launch THEN "done" ELSE IF boot THEN "boot" ELSE "install"
         IN  /\ runs' = PutRun(runs, r, [rec EXCEPT !.settled = TRUE, !.pc = pc,
                                                    !.device = IF launch THEN currentDevice ELSE @,
                                                    !.appPath = IF launch THEN result.appPath ELSE @])
             \* setBuilding(false), then runApp's setBuilding(true, ...)
             /\ isBuilding' = launch
             /\ last' = BuildStep(op, r, FALSE,
                                  <<Call("outputChannel", 0, <<line>>),
                                    Call("result", 0, <<result>>)>>
                                  \o (IF ~launch THEN <<>>
                                      ELSE IF boot THEN <<Call("bootSimulator", 0, <<>>)>>
                                      ELSE <<Call("installApp", 0, <<>>)>>), {},
                                  [NoInfo EXCEPT !.settledAfter = TRUE, !.resolved = result,
                                                 !.code = code])

\* build(): 'close' handler.  throws: new RegExp(...) raises a SyntaxError
\* for the scheme of the call; on exit code 0 the handler then ends at that
\* statement, before it writes to the output channel or calls resolve, and
\* the exception leaves the event emitter uncaught
BuildClose(r, code, throws, appPath, error) ==
    /\ r \in DOMAIN runs
    /\ runs[r].spawned /\ ~runs[r].closed
    /\ runs[r].spawnOk \/ runs[r].errored
    /\ code \in (IF runs[r].spawnOk THEN ExitCodes ELSE {SpawnFailureCode})
    /\ currentBuildProcess' = Null
    /\ IF code = "0" /\ throws
       THEN /\ runs' = PutRun(runs, r, [runs[r] EXCEPT !.closed = TRUE])
            /\ last' = BuildStep("build.close", r, FALSE,
                                 <<Call("uncaughtException", 0, <<"SyntaxError">>)>>, {},
                                 [NoInfo EXCEPT !.settledBefore = runs[r].settled,
                                                !.settledAfter = runs[r].settled,
                                                !.code = code])
            /\ UNCHANGED isBuilding
       ELSE Settle(r, [runs[r] EXCEPT !.closed = TRUE], CloseResult(code, appPath, error),
                   IF code = "0" THEN "Build succeeded" ELSE "Build failed (exit code)",
                   "build.close", code)
    /\ UNCHANGED <<activated, currentProject, schemes, currentScheme, currentDevice,
                   runCount, logVars>>

\* build(): 'error' handler
BuildError(r) ==
    /\ r \in DOMAIN runs
    /\ runs[r].spawned /\ ~runs[r].spawnOk /\ ~runs[r].errored /\ ~runs[r].closed
    /\ currentBuildProcess' = Null
    /\ Settle(r, [runs[r] EXCEPT !.errored = TRUE], ErrorResult,
              "Failed to start build", "build.error", "")
    /\ UNCHANGED <<activated, currentProject, schemes, currentScheme, currentDevice,
                   runCount, logVars, observed, managerVars, pending>>

\* ------------------------------------------- device manager: catalog
\* listAllDevices() as the sequence of its suspension points: the simctl
\* query, the devicectl query and, when that gave nothing, the xctrace
\* query.  A catalog Device is kept with its name, type, state, platform
\* and osVersion; a version is the sequence of its numbers.
MaxEntries == 3       \* runtimes in one simctl answer

UnknownVersion == <<>>       \* osVersion: 'Unknown'

\* the keys of data.devices: a platform with a major and a minor number
Runtimes == { [platform |-> "iOS",  major |-> 17, minor |-> 0],
              [platform |-> "iOS",  major |-> 16, minor |-> 4],
              [platform |-> "iOS",  major |-> 17, minor |-> 2],
              [platform |-> "tvOS", major |-> 17, minor |-> 0] }

\* runtime.match(/iOS-(\d+)-(\d+)/) ? `${m[1]}.${m[2]}` : 'Unknown'
OsVersion(runtime) ==
    IF runtime.platform = "iOS" THEN <<runtime.major, runtime.minor>> ELSE UnknownVersion

\* the device lists simctl may give for one runtime
SimNames == {"iPhone 15", "iPhone SE"}
SimLists ==
    { << [name |-> "iPhone 15", state |-> "Shutdown", isAvailable |-> TRUE] >>,
      << [name |-> "iPhone SE", state |-> "Booted",   isAvailable |-> TRUE] >>,
      << [name |-> "iPhone SE", state |-> "Shutdown", isAvailable |-> FALSE],
         [name |-> "iPhone 15", state |-> "Booted",   isAvailable |-> TRUE] >> }

\* sequences of up to MaxEntries entries with different runtimes, in the
\* order of the JSON text
RECURSIVE EntriesOfLen(_)
EntriesOfLen(n) ==
    IF n = 0 THEN { <<>> }
    ELSE { Append(es, [runtime |-> rt, devices |-> ds]) :
               es \in EntriesOfLen(n - 1), rt \in Runtimes, ds \in SimLists }

DistinctRuntimes(es) ==
    \A i, j \in 1..Len(es) : i # j => es[i].runtime # es[j].runtime

\* what `xcrun simctl list devices available --json` may answer: the
\* command fails, its output is not the expected JSON, or it lists devices
SimctlOutcomes ==
    { [kind |-> "fail", entries |-> <<>>], [kind |-> "malformed", entries |-> <<>>] }
    \cup { [kind |-> "ok", entries |-> es] :
               es \in { e \in UNION { EntriesOfLen(n) : n \in 0..MaxEntries } :
                            DistinctRuntimes(e) } }

\* what `xcrun devicectl list devices` may answer
PhoneList(transports) ==
    [i \in 1..Len(transports) |->
        [name |-> "Phone", transportType |-> transports[i], osVersion |-> <<17, 1, 1>>]]

DevicectlOutcomes ==
    { [kind |-> "fail", devices |-> <<>>], [kind |-> "malformed", devices |-> <<>>] }
    \cup { [kind |-> "ok", devices |-> PhoneList(ts)] :
               ts \in { <<>>, <<"wired">>, <<"network", "wired">>, <<"localNetwork">> } }

\* what `xcrun xctrace list devices` may answer: lines of the form
\* "name (version) (udid)" for a device or a simulator, and other lines
HeaderLine    == [form |-> "header", name |-> "== Devices ==", version |-> UnknownVersion,
                  simulator |-> FALSE]
DeviceLine    == [form |-> "device", name |-> "Old Phone", version |-> <<16, 4>>,
                  simulator |-> FALSE]
SimulatorLine == [form |-> "device", name |-> "iPhone 15 Simulator", version |-> <<17, 0>>,
                  simulator |-> TRUE]

XctraceOutcomes ==
    { [kind |-> "fail", lines |-> <<>>] }
    \cup { [kind |-> "ok", lines |-> ls] :
               ls \in { <<>>, <<HeaderLine, DeviceLine>>, <<HeaderLine, SimulatorLine>>,
                        <<HeaderLine, SimulatorLine, DeviceLine>> } }

\* for (const device of simDevices) if (device.isAvailable) devices.push(...)
RECURSIVE AvailableOf(_, _)
AvailableOf(runtime, devices) ==
    IF devices = <<>> THEN <<>>
    ELSE (IF Head(devices).isAvailable
          THEN << [name |-> Head(devices).name, type |-> "simulator",
                   state |-> Head(devices).state, platform |-> "iOS Simulator",
                   osVersion |-> OsVersion(runtime)] >>
          ELSE <<>>)
         \o AvailableOf(runtime, Tail(devices))

\* for (const [runtime, simDevices] of Object.entries(data.devices))
RECURSIVE SimulatorsOf(_)
SimulatorsOf(entries) ==
    IF entries = <<>> THEN <<>>
    ELSE AvailableOf(Head(entries).runtime, Head(entries).devices)
         \o SimulatorsOf(Tail(entries))

\* manager.ts listSimulators(): what it returns, or that it raises
ListSimulatorsResultThrows(outcome) ==
    IF outcome.kind = "ok"
    THEN [raised |-> FALSE, devices |-> SimulatorsOf(outcome.entries)]
    ELSE [raised |-> TRUE, devices |-> <<>>]

ListSimulatorsResult(outcome) ==
    IF outcome.kind = "ok"
    THEN [raised |-> FALSE, devices |-> SimulatorsOf(outcome.entries)]
    ELSE [raised |-> FALSE, devices |-> <<>>]

\* listDevicesWithDevicectl(): the wired and network devices
RECURSIVE ConnectedOf(_)
ConnectedOf(devices) ==
    IF devices = <<>> THEN <<>>
    ELSE (IF Head(devices).transportType \in {"wired", "network"}
          THEN << [name |-> Head(devices).name, type |-> "device",
                   state |-> IF Head(devices).transportType = "wired"
                             THEN "Connected" ELSE "Network",
                   platform |-> "iOS", osVersion |-> Head(devices).osVersion] >>
          ELSE <<>>)
         \o ConnectedOf(Tail(devices))

DevicectlDevices(outcome) ==
    IF outcome.kind = "ok" THEN ConnectedOf(outcome.devices) ELSE <<>>

\* listDevicesWithInstruments(): the lines that match and do not mention a
\* simulator
RECURSIVE ParsedLines(_)
ParsedLines(lines) ==
    IF lines = <<>> THEN <<>>
    ELSE (IF Head(lines).form = "device" /\ ~Head(lines).simulator
          THEN << [name |-> Head(lines).name, type |-> "device", state |-> "Connected",
                   platform |-> "iOS", osVersion |-> Head(lines).version] >>
          ELSE <<>>)
         \o ParsedLines(Tail(lines))

InstrumentsDevices(outcome) ==
    IF outcome.kind = "ok" THEN ParsedLines(outcome.lines) ELSE <<>>

\* listRealDevices(): if (devices.length > 0) return devices; otherwise the
\* legacy query
NeedsLegacyAlways(devices) == TRUE

NeedsLegacy(devices) == Len(devices) = 0

\* no listAllDevices() call
NoCatalog == [pc |-> "idle", queries |-> <<>>,
              simctl   |-> [kind |-> "none", entries |-> <<>>],
              modern   |-> [kind |-> "none", devices |-> <<>>],
              legacy   |-> [kind |-> "none", lines |-> <<>>],
              result   |-> <<>>]

\* listAllDevices() up to `await execAsync('xcrun simctl list ...')`
ListAllDevices ==
    /\ catalog.pc \in {"idle", "done", "raised"}
    /\ catalog' = [NoCatalog EXCEPT !.pc = "simctl", !.queries = <<"simctl">>]
    /\ UNCHANGED <<logVars, buildVars, observed, deviceOp, sorting, pending, last>>

\* the simctl query has answered: devices.push(...simulators), then
\* listRealDevices() up to the devicectl query
SimctlDone(outcome) ==
    /\ catalog.pc = "simctl"
    /\ LET r == ListSimulatorsResult(outcome)
       IN  catalog' = IF r.raised
                      THEN [catalog EXCEPT !.pc = "raised", !.simctl = outcome]
                      ELSE [catalog EXCEPT !.pc = "devicectl", !.simctl = outcome,
                                           !.queries = Append(@, "devicectl"),
                                           !.result = r.devices]
    /\ UNCHANGED <<logVars, buildVars, observed, deviceOp, sorting, pending, last>>

\* the devicectl query has answered
DevicectlDone(outcome) ==
    /\ catalog.pc = "devicectl"
    /\ LET devices == DevicectlDevices(outcome)
       IN  catalog' = IF NeedsLegacy(devices)
                      THEN [catalog EXCEPT !.pc = "xctrace", !.modern = outcome,
                                           !.queries = Append(@, "xctrace")]
                      ELSE [catalog EXCEPT !.pc = "done", !.modern = outcome,
                                           !.result = @ \o devices]
    /\ UNCHANGED <<logVars, buildVars, observed, deviceOp, sorting, pending, last>>

\* the xctrace query has answered: devices.push(...realDevices); return
XctraceDone(outcome) ==
    /\ catalog.pc = "xctrace"
    /\ catalog' = [catalog EXCEPT !.pc = "done", !.legacy = outcome,
                                  !.result = @ \o InstrumentsDevices(outcome)]
    /\ UNCHANGED <<logVars, buildVars, observed, deviceOp, sorting, pending, last>>

\* ------------------------------------ device manager: device operations
\* bootSimulator, installApp, launchApp and terminateApp as the sequence of
\* the commands they await.  What execAsync gives: the command succeeded,
\* or the error it rejects with (its message, if it has one, as the
\* sequence of its parts)
AlreadyBootedText == "Unable to boot device in current state: Booted"

ExecOk == [ok |-> TRUE, hasMessage |-> FALSE, message |-> <<>>]

ExecErrors ==
    { [ok |-> FALSE, hasMessage |-> TRUE,
       message |-> <<"Command failed: ", AlreadyBootedText>>],
      [ok |-> FALSE, hasMessage |-> TRUE,
       message |-> <<"Command failed: ", "Unable to boot device in current state: Shutting Down">>],
      [ok |-> FALSE, hasMessage |-> TRUE,
       message |-> <<"Command failed: ", "found nothing to terminate">>],
      [ok |-> FALSE, hasMessage |-> TRUE,
       message |-> <<"Command failed: ", "command not found">>],
      [ok |-> FALSE, hasMessage |-> FALSE, message |-> <<>>] }

ExecOutcomes == {ExecOk} \cup ExecErrors

\* message.includes(text)
Includes(message, text) == \E i \in 1..Len(message) : message[i] = text

\* bootSimulator: the errors its catch block does not rethrow
\* (!error.message?.includes('Unable to boot device in current state: Booted'))
BootSuppressedAny(error) == TRUE

BootSuppressed(error) == error.hasMessage /\ Includes(error.message, AlreadyBootedText)

\* terminateApp: the errors its catch block does not rethrow (catch { })
TerminateSuppressed(error) == TRUE

\* installApp, launchApp: a failed command is followed by the ios-deploy
\* command exactly for a physical device whose devicectl command failed
HasFallbackAlways(device, commands) == TRUE

HasFallback(device, commands) == device.type = "device" /\ Len(commands) = 1

\* the first command an operation runs for a device, and its fallback
FirstCommand(op, device) ==
    CASE op = "bootSimulator" -> "simctl boot"
      [] op = "installApp"    -> IF device.type = "simulator" THEN "simctl install"
                                 ELSE "devicectl install"
      [] op = "launchApp"     -> IF device.type = "simulator" THEN "simctl launch"
                                 ELSE "devicectl launch"
      [] OTHER                -> "simctl terminate"

FallbackCommand(op) == IF op = "installApp" THEN "ios-deploy install" ELSE "ios-deploy launch"

\* the operations and the devices they are called for
DeviceOps == {"bootSimulator", "installApp", "launchApp", "terminateApp"}

OpDevices(op) ==
    IF op = "bootSimulator" THEN {d \in Devices : d.type = "simulator"} ELSE Devices

\* no device operation
NoDeviceOp == [op |-> "none", device |-> NoDevice, pc |-> "idle", commands |-> <<>>,
               outcomes |-> <<>>, raised |-> FALSE, error |-> ExecOk]

\* a call of an operation, up to its first await (terminateApp for a
\* physical device runs no command and returns)
CallDeviceOp(op, device) ==
    /\ deviceOp.pc \in {"idle", "done"}
    /\ device \in OpDevices(op)
    /\ deviceOp' = IF op = "terminateApp" /\ device.type # "simulator"
                   THEN [NoDeviceOp EXCEPT !.op = op, !.device = device, !.pc = "done"]
                   ELSE [NoDeviceOp EXCEPT !.op = op, !.device = device, !.pc = "exec",
                                           !.commands = <<FirstCommand(op, device)>>]
    /\ UNCHANGED <<logVars, buildVars, observed, catalog, sorting, pending, last>>

\* what follows a failed command: the operation returns ("done"), rethrows
\* ("raise") or runs its fallback command ("fallback")
AfterFailure(op, device, commands, error) ==
    CASE op = "bootSimulator" -> IF BootSuppressed(error) THEN "done" ELSE "raise"
      [] op = "terminateApp"  -> IF TerminateSuppressed(error) THEN "done" ELSE "raise"
      [] OTHER                -> IF HasFallback(device, commands) THEN "fallback" ELSE "raise"

\* the awaited command has completed
ExecDone(outcome) ==
    /\ deviceOp.pc = "exec"
    /\ LET next == IF outcome.ok THEN "done"
                   ELSE AfterFailure(deviceOp.op, deviceOp.device, deviceOp.commands, outcome)
           seen == [deviceOp EXCEPT !.outcomes = Append(@, outcome)]
       IN  deviceOp' =
               CASE next = "done"  -> [seen EXCEPT !.pc = "done"]
                 [] next = "raise" -> [seen EXCEPT !.pc = "done", !.raised = TRUE,
                                                   !.error = outcome]
                 [] OTHER          -> [seen EXCEPT !.commands =
                                           Append(@, FallbackCommand(deviceOp.op))]
    /\ UNCHANGED <<logVars, buildVars, observed, catalog, sorting, pending, last>>

NextDevice ==
    \/ \E op \in DeviceOps, device \in Devices : CallDeviceOp(op, device)
    \/ \E outcome \in ExecOutcomes : ExecDone(outcome)

NextCatalog ==
    \/ ListAllDevices
    \/ \E outcome \in SimctlOutcomes : SimctlDone(outcome)
    \/ \E outcome \in DevicectlOutcomes : DevicectlDone(outcome)
    \/ \E outcome \in XctraceOutcomes : XctraceDone(outcome)

\* ----------------------------------------------------------- runApp
\* runApp after the command it awaits has completed.  pc "boot": the
\* command of bootSimulator; "open": openSimulatorApp; "install" and
\* "installFallback": the commands of installApp.  What follows: the next
\* operation, or the catch block (setBuilding(false), showErrorMessage).
RunAppRaises(rec, outcome) ==
    /\ ~outcome.ok
    /\ CASE rec.pc = "boot"    -> ~BootSuppressed(outcome)
         [] rec.pc = "install" -> ~HasFallback(rec.device, <<FirstCommand("installApp", rec.device)>>)
         [] OTHER              -> TRUE

RunAppCommand(rec) ==
    CASE rec.pc = "boot"    -> FirstCommand("bootSimulator", rec.device)
      [] rec.pc = "open"    -> "open -a Simulator"
      [] rec.pc = "install" -> FirstCommand("installApp", rec.device)
      [] OTHER              -> FallbackCommand("installApp")

RunAppExecDone(r, outcome) ==
    /\ r \in DOMAIN runs
    /\ runs[r].pc \in {"boot", "open", "install", "installFallback"}
    /\ LET rec     == runs[r]
           settled == Call("execAsync", 0, <<RunAppCommand(rec), outcome>>)
       IN  IF RunAppRaises(rec, outcome)
           THEN /\ runs' = PutRun(runs, r, [rec EXCEPT !.pc = "done"])
                /\ isBuilding' = FALSE
                /\ last' = BuildStep("runApp", r, FALSE,
                                     <<settled, Call("showErrorMessage", 0, <<>>)>>, {}, NoInfo)
           ELSE IF rec.pc = "boot"
           THEN /\ runs' = PutRun(runs, r, [rec EXCEPT !.pc = "open",
                                                      !.completed = Append(@, "bootSimulator")])
                /\ UNCHANGED isBuilding
                /\ last' = BuildStep("runApp", r, TRUE,
                                     <<settled, Call("openSimulatorApp", 0, <<>>)>>, {}, NoInfo)
           ELSE IF rec.pc = "open"
           THEN /\ runs' = PutRun(runs, r, [rec EXCEPT !.pc = "install",
                                                      !.completed = Append(@, "openSimulatorApp")])
                \* statusBar.setBuilding(true, 'Installing...')
                /\ isBuilding' = TRUE
                /\ last' = BuildStep("runApp", r, TRUE,
                                     <<settled, Call("installApp", 0, <<>>)>>, {}, NoInfo)
           ELSE IF ~outcome.ok
           THEN \* installApp: the devicectl command failed, ios-deploy follows
                /\ runs' = PutRun(runs, r, [rec EXCEPT !.pc = "installFallback"])
                /\ UNCHANGED isBuilding
                /\ last' = BuildStep("runApp", r, TRUE, <<settled>>, {}, NoInfo)
           ELSE /\ runs' = PutRun(runs, r, [rec EXCEPT !.pc = "bundleId",
                                                      !.completed = Append(@, "installApp")])
                /\ UNCHANGED isBuilding
                /\ last' = BuildStep("runApp", r, TRUE,
                                     <<settled, Call("getBundleIdentifier", 0, <<>>)>>, {}, NoInfo)
    /\ UNCHANGED <<activated, currentProject, schemes, currentScheme, currentDevice,
                   currentBuildProcess, runCount, logVars, observed, managerVars, pending>>

\* getBundleIdentifier has answered (found: it gave a non-empty identifier):
\* if (bundleId) startLogStreamInternal(device, bundleId), which starts the
\* stream in mode 'stdout'; then setBuilding(false)
RunAppBundleId(r, found, ok) ==
    /\ r \in DOMAIN runs
    /\ runs[r].pc = "bundleId"
    /\ runs' = PutRun(runs, r, [runs[r] EXCEPT !.pc = "done"])
    /\ isBuilding' = FALSE
    /\ IF found
       THEN /\ logProcessId < MaxLogStarts
            /\ StartLogStreamState(runs[r].device.type, "stdout", ok, ok)
            /\ last' = BuildStep("runApp", r,
                                 StartReturns(runs[r].device.type, "stdout",
                                              logProcess', stdoutLogProcess'),
                                 <<Call("bundleId", 0, <<"found">>),
                                   Call("startLogStream", 0, <<"stdout">>)>>,
                                 {}, NoInfo)
       ELSE /\ UNCHANGED logVars
            /\ last' = BuildStep("runApp", r, FALSE,
                                 <<Call("bundleId", 0, <<"undefined">>)>>, {}, NoInfo)
    /\ UNCHANGED <<activated, currentProject, schemes, currentScheme, currentDevice,
                   currentBuildProcess, runCount, observed, managerVars, pending>>

\* ------------------------- extension: refresh, initialize and the pickers
\* the refresh, selectScheme and selectSimulator commands and the
\* initialize() of a workspace-folder change, each as the sequence of its
\* suspension points.  An invocation in flight: the command, where it is
\* suspended, the project it passed to getSchemes and the items of the
\* quick pick it is showing
MaxPending == 1       \* invocations of these commands in flight at once

\* the projects findXcodeProjects can find (a project is named by its path)
WorkspaceProjects == {"App", "Kit", "Demo"}

Invocation(cmd, pc) == [cmd |-> cmd, pc |-> pc, project |-> Undefined, items |-> {}]

Remove(seq, i) == SubSeq(seq, 1, i - 1) \o SubSeq(seq, i + 1, Len(seq))

Suspended(i, cmd, pc) ==
    i \in DOMAIN pending /\ pending[i].cmd = cmd /\ pending[i].pc = pc

CommandStep(op, calls) == BuildStep(op, Null, FALSE, calls, {}, NoInfo)

\* refresh up to `await findXcodeProjects()`
RefreshCommand ==
    /\ activated
    /\ Len(pending) < MaxPending
    /\ pending' = Append(pending, Invocation("refresh", "findProjects"))
    /\ last' = CommandStep("refresh", <<>>)
    /\ UNCHANGED <<buildVars, logVars, observed, managerVars>>

\* keep current project if still exists, otherwise re-select
RefreshProject(found) ==
    IF currentProject # Undefined /\ currentProject \in found THEN currentProject
    ELSE IF Cardinality(found) = 1 THEN CHOOSE p \in found : TRUE
    ELSE Undefined

\* refresh: findXcodeProjects has answered
RefreshProjectsDone(i, found) ==
    /\ Suspended(i, "refresh", "findProjects")
    /\ IF found = {}
       THEN /\ pending' = Remove(pending, i)
            /\ last' = CommandStep("refresh.projects", <<Call("showWarningMessage", 0, <<>>)>>)
            /\ UNCHANGED currentProject
       ELSE /\ currentProject' = RefreshProject(found)
            /\ IF currentProject' # Undefined
               THEN \* schemes = await getSchemes(currentProject)
                    /\ pending' = [pending EXCEPT ![i].pc = "getSchemes",
                                                  ![i].project = currentProject']
                    /\ last' = CommandStep("refresh.projects", <<>>)
               ELSE /\ pending' = Remove(pending, i)
                    /\ last' = CommandStep("refresh.projects",
                                           <<Call("showInformationMessage", 0, <<>>)>>)
    /\ UNCHANGED <<activated, schemes, currentScheme, currentDevice, isBuilding,
                   currentBuildProcess, runs, runCount, logVars, observed, managerVars>>

\* validate saved scheme still exists
RefreshScheme(listed) ==
    IF currentScheme # Undefined /\ currentScheme \notin listed THEN Undefined
    ELSE currentScheme

\* refresh: getSchemes has answered
RefreshSchemesDone(i, listed) ==
    /\ Suspended(i, "refresh", "getSchemes")
    /\ listed \in {{}, SchemesOf(pending[i].project)}
    /\ schemes' = listed
    /\ currentScheme' = RefreshScheme(listed)
    /\ pending' = Remove(pending, i)
    /\ last' = CommandStep("refresh.schemes",
                           <<SchemesCall(pending[i].project, listed),
                             Call("showInformationMessage", 0, <<>>)>>)
    /\ UNCHANGED <<activated, currentProject, currentDevice, isBuilding,
                   currentBuildProcess, runs, runCount, logVars, observed, managerVars>>

\* the simbuild.selectScheme command up to its first await
SelectSchemeCommand ==
    /\ activated
    /\ Len(pending) < MaxPending
    /\ IF currentProject = Undefined
       THEN /\ last' = CommandStep("selectScheme", <<Call("showWarningMessage", 0, <<>>)>>)
            /\ UNCHANGED pending
       ELSE /\ pending' = Append(pending,
                              IF schemes = {}
                              THEN [Invocation("selectScheme", "getSchemes")
                                        EXCEPT !.project = currentProject]
                              ELSE [Invocation("selectScheme", "pickScheme")
                                        EXCEPT !.items = schemes])
            /\ last' = CommandStep("selectScheme", <<>>)
    /\ UNCHANGED <<buildVars, logVars, observed, managerVars>>

\* selectScheme: getSchemes has answered
SelectSchemesDone(i, listed) ==
    /\ Suspended(i, "selectScheme", "getSchemes")
    /\ listed \in {{}, SchemesOf(pending[i].project)}
    /\ schemes' = listed
    /\ IF listed = {}
       THEN /\ pending' = Remove(pending, i)
            /\ last' = CommandStep("selectScheme.schemes",
                                   <<SchemesCall(pending[i].project, listed),
                                     Call("showWarningMessage", 0, <<>>)>>)
       ELSE /\ pending' = [pending EXCEPT ![i].pc = "pickScheme", ![i].items = listed]
            /\ last' = CommandStep("selectScheme.schemes",
                                   <<SchemesCall(pending[i].project, listed)>>)
    /\ UNCHANGED <<activated, currentProject, currentScheme, currentDevice, isBuilding,
                   currentBuildProcess, runs, runCount, logVars, observed, managerVars>>

\* selectScheme: the quick pick has answered (Undefined: dismissed)
SelectSchemePicked(i, selected) ==
    /\ Suspended(i, "selectScheme", "pickScheme")
    /\ selected \in pending[i].items \cup {Undefined}
    /\ currentScheme' = IF selected # Undefined THEN selected ELSE currentScheme
    /\ pending' = Remove(pending, i)
    /\ last' = CommandStep("selectScheme.picked", <<>>)
    /\ UNCHANGED <<activated, currentProject, schemes, currentDevice, isBuilding,
                   currentBuildProcess, runs, runCount, logVars, observed, managerVars>>

\* the simbuild.selectSimulator command up to `await listAllDevices()`
SelectDeviceCommand ==
    /\ activated
    /\ Len(pending) < MaxPending
    /\ pending' = Append(pending, Invocation("selectDevice", "listDevices"))
    /\ last' = CommandStep("selectDevice", <<>>)
    /\ UNCHANGED <<buildVars, logVars, observed, managerVars>>

\* selectDevice: listAllDevices has answered
SelectDevicesDone(i, devices) ==
    /\ Suspended(i, "selectDevice", "listDevices")
    /\ devices \in {{}, Devices}
    /\ IF devices = {}
       THEN /\ pending' = Remove(pending, i)
            /\ last' = CommandStep("selectDevice.devices",
                                   <<Call("showWarningMessage", 0, <<>>)>>)
       ELSE /\ pending' = [pending EXCEPT ![i].pc = "pickDevice", ![i].items = devices]
            /\ last' = CommandStep("selectDevice.devices", <<>>)
    /\ UNCHANGED <<buildVars, logVars, observed, managerVars>>

\* selectDevice: the quick pick has answered (NoDevice: dismissed)
SelectDevicePicked(i, selected) ==
    /\ Suspended(i, "selectDevice", "pickDevice")
    /\ selected \in pending[i].items \cup {NoDevice}
    /\ currentDevice' = IF selected # NoDevice THEN selected ELSE currentDevice
    /\ pending' = Remove(pending, i)
    /\ last' = CommandStep("selectDevice.picked", <<>>)
    /\ UNCHANGED <<activated, currentProject, schemes, currentScheme, isBuilding,
                   currentBuildProcess, runs, runCount, logVars, observed, managerVars>>

\* onDidChangeWorkspaceFolders: initialize() up to `await findXcodeProjects()`
InitializeCommand ==
    /\ activated
    /\ Len(pending) < MaxPending
    /\ pending' = Append(pending, Invocation("initialize", "findProjects"))
    /\ last' = CommandStep("initialize", <<>>)
    /\ UNCHANGED <<buildVars, logVars, observed, managerVars>>

\* initialize from `if (currentProject)` on: await getSchemes(currentProject),
\* or return
InitializeLoads(i, op) ==
    /\ pending' = IF currentProject' # Undefined
                  THEN [pending EXCEPT ![i].pc = "getSchemes", ![i].items = {},
                                       ![i].project = currentProject']
                  ELSE Remove(pending, i)
    /\ last' = CommandStep(op, <<>>)

\* initialize: findXcodeProjects has answered
InitializeProjectsDone(i, found) ==
    /\ Suspended(i, "initialize", "findProjects")
    /\ IF found = {}
       THEN /\ pending' = Remove(pending, i)
            /\ last' = CommandStep("initialize.projects", <<>>)
            /\ UNCHANGED currentProject
       ELSE IF Cardinality(found) = 1
       THEN /\ currentProject' = CHOOSE p \in found : TRUE
            /\ InitializeLoads(i, "initialize.projects")
       ELSE /\ pending' = [pending EXCEPT ![i].pc = "pickProject", ![i].items = found]
            /\ last' = CommandStep("initialize.projects", <<>>)
            /\ UNCHANGED currentProject
    /\ UNCHANGED <<activated, schemes, currentScheme, currentDevice, isBuilding,
                   currentBuildProcess, runs, runCount, logVars, observed, managerVars>>

\* initialize: the project quick pick has answered (Undefined: dismissed)
InitializeProjectPicked(i, picked) ==
    /\ Suspended(i, "initialize", "pickProject")
    /\ picked \in pending[i].items \cup {Undefined}
    /\ currentProject' = IF picked # Undefined THEN picked ELSE currentProject
    /\ InitializeLoads(i, "initialize.picked")
    /\ UNCHANGED <<activated, schemes, currentScheme, currentDevice, isBuilding,
                   currentBuildProcess, runs, runCount, logVars, observed, managerVars>>

\* initialize: getSchemes has answered; savedScheme and savedDevice are the
\* workspace state, autoSelect the simbuild.autoSelectScheme setting
InitializeSchemesDone(i, listed, savedScheme, autoSelect, savedDevice) ==
    /\ Suspended(i, "initialize", "getSchemes")
    /\ listed \in {{}, SchemesOf(pending[i].project)}
    /\ schemes' = listed
    /\ currentScheme' = InitScheme(listed, savedScheme, autoSelect)
    /\ currentDevice' = IF savedDevice # NoDevice THEN savedDevice ELSE currentDevice
    /\ pending' = Remove(pending, i)
    /\ last' = CommandStep("initialize.schemes",
                           <<SchemesCall(pending[i].project, listed)>>)
    /\ UNCHANGED <<activated, currentProject, isBuilding, currentBuildProcess, runs,
                   runCount, logVars, observed, managerVars>>

\* ------------------------------------ simulator list: the comparator
\* simulator/list.ts listSimulators(): the runtime it stores for a key of
\* data.devices, `iOS ${m[1]}.${m[2]}` if the key matches /iOS-(\d+)-(\d+)/,
\* else the key itself
RuntimeName(runtime) ==
    IF runtime.platform = "iOS" THEN <<"iOS", runtime.major, runtime.minor>>
    ELSE <<runtime.platform, "-", runtime.major, "-", runtime.minor>>

\* a.runtime.match(/iOS (\d+)\.(\d+)/): the two numbers, <<>> for no match
VersionMatch(runtimeName) ==
    IF Len(runtimeName) = 3 /\ runtimeName[1] = "iOS"
    THEN <<runtimeName[2], runtimeName[3]>> ELSE <<>>

\* the names of the model in the order of localeCompare
NameOrder == <<"iPhone 15", "iPhone SE", "iPhone X">>

Sign(n) == IF n < 0 THEN 0 - 1 ELSE IF n > 0 THEN 1 ELSE 0

\* a.localeCompare(b)
LocaleCompare(a, b) ==
    LET at(n) == CHOOSE i \in 1..Len(NameOrder) : NameOrder[i] = n
    IN  Sign(at(a) - at(b))

\* the simulators listSimulators may push: available ones, of any runtime
ListedSimulators ==
    { [name |-> NameOrder[n], state |-> st, runtime |-> RuntimeName(rt)] :
          n \in 1..Len(NameOrder), st \in {"Booted", "Shutdown"}, rt \in Runtimes }

\* simulators.sort((a, b) => ...): what the comparator returns
Comparator(a, b) ==
    LET versionA == VersionMatch(a.runtime)
        versionB == VersionMatch(b.runtime)
        byName   == LocaleCompare(a.name, b.name)
    IN  IF a.state = "Booted" /\ b.state # "Booted" THEN 0 - 1
        ELSE IF a.state # "Booted" /\ b.state = "Booted" THEN 1
        ELSE IF versionA # <<>> /\ versionB # <<>>
        THEN IF versionB[1] - versionA[1] # 0 THEN versionB[1] - versionA[1]
             ELSE IF versionB[2] - versionA[2] # 0 THEN versionB[2] - versionA[2]
             ELSE byName
        ELSE byName

NoSorting == [pc |-> "idle", sims |-> <<>>, answers |-> <<>>]

\* the comparator applied to every pair of the simulators being sorted
Compare ==
    /\ sorting.pc = "compare"
    /\ sorting' = [sorting EXCEPT !.pc = "done",
                       !.answers = [i \in DOMAIN sorting.sims |->
                                       [j \in DOMAIN sorting.sims |->
                                           Comparator(sorting.sims[i], sorting.sims[j])]]]
    /\ UNCHANGED <<logVars, buildVars, observed, catalog, deviceOp, pending, last>>

\* ---------------------------------------------- extension: deactivate
\* deactivate(): stopLogStream(), then the status bar and both output
\* channels are disposed; the commands are disposed with the extension's
\* subscriptions.  stopBuild() is not called.
Deactivate ==
    LET r == StopResult(logProcs, logProcess, stdoutLogProcess)
    IN  /\ activated
        /\ activated' = FALSE
        /\ logProcs' = Reap(r.procs, r.logProcess, r.stdoutLogProcess)
        /\ stdoutLogProcess' = r.stdoutLogProcess
        /\ logProcess' = r.logProcess
        /\ last' = Step("deactivate", Null, logProcessId, r.stopped, <<>>,
                        r.sigterm, "none", "none")
        /\ UNCHANGED <<logProcessId, onCloseCalled, currentProject, schemes, currentScheme,
                       currentDevice, isBuilding, currentBuildProcess, runs, runCount,
                       observed, managerVars, pending>>

\* ------------------------------------------------------- specification
Init ==
    /\ logProcess = Null
    /\ stdoutLogProcess = Null
    /\ logProcessId = 0
    /\ logProcs = <<>>
    /\ onCloseCalled = FALSE
    /\ activated = FALSE
    /\ currentProject = Undefined
    /\ schemes = {}
    /\ currentScheme = Undefined
    /\ currentDevice = NoDevice
    /\ isBuilding = FALSE
    /\ currentBuildProcess = Null
    /\ runs = <<>>
    /\ runCount = 0
    /\ observed = NoObserved
    /\ catalog = NoCatalog
    /\ deviceOp = NoDeviceOp
    /\ sorting = NoSorting
    /\ pending = <<>>
    /\ last = NoStep

Next ==
    \/ \E d \in DeviceTypes, m \in LogModes, ok1 \in BOOLEAN, ok2 \in BOOLEAN :
           StartLogStream(d, m, ok1, ok2)
    \/ StopLogStream
    \/ \E p \in DOMAIN logProcs, c \in Chunks : LogStdoutData(p, c)
    \/ \E p \in DOMAIN logProcs, c \in Chunks : LogStderrData(p, c)
    \/ \E p \in DOMAIN logProcs : LogClose(p)
    \/ \E p \in DOMAIN logProcs : LogError(p)

Spec == Init /\ [][Next]_vars

\* the build session under the build, run, clean and stop commands
\* simbuild.build: runBuild(false); simbuild.run: runBuild(true);
\* simbuild.clean: runBuild(false, true)
RunCommands == {[runAfterBuild |-> FALSE, clean |-> FALSE],
                [runAfterBuild |-> TRUE,  clean |-> FALSE],
                [runAfterBuild |-> FALSE, clean |-> TRUE]}

RunIds == 1..MaxRuns

NextBuild ==
    \/ \E found \in SUBSET ProjectNames, picked \in ProjectNames \cup {Undefined},
          listed \in SUBSET SchemesOf("App"), savedScheme \in SchemesOf("App") \cup {Undefined},
          autoSelect \in BOOLEAN, savedDevice \in Devices \cup {NoDevice} :
           Activate(found, picked, listed, savedScheme, autoSelect, savedDevice)
    \/ \E cmd \in RunCommands, ok \in BOOLEAN : RunBuild(cmd.runAfterBuild, cmd.clean, ok)
    \/ StopCommand
    \/ \E r \in RunIds, listed \in SUBSET SchemesOf("App"), ok \in BOOLEAN :
           GetSchemesDone(r, listed, ok)
    \/ \E r \in RunIds, selected \in SchemesOf("App") \cup {Undefined}, ok \in BOOLEAN :
           PickSchemeDone(r, selected, ok)
    \/ \E r \in RunIds, devices \in SUBSET Devices, ok \in BOOLEAN :
           ListDevicesDone(r, devices, ok)
    \/ \E r \in RunIds, selected \in Devices \cup {NoDevice}, ok \in BOOLEAN :
           PickDeviceDone(r, selected, ok)
    \/ \E r \in RunIds, chunk \in BuildChunks : BuildStdout(r, chunk) /\ UNCHANGED <<observed, managerVars, pending>>
    \/ \E r \in RunIds : BuildStderr(r) /\ UNCHANGED <<observed, managerVars, pending>>
    \/ \E r \in RunIds, code \in ExitCodes \cup {SpawnFailureCode}, scheme \in SchemesOf("App"),
          appPath \in {NoPath, <<<<"App", ".app">>>>}, error \in {GenericError, <<"m1">>} :
           BuildClose(r, code, PatternThrows(scheme), appPath, error) /\ UNCHANGED <<observed, managerVars, pending>>
    \/ \E r \in RunIds : BuildError(r)

SpecBuild == Init /\ [][NextBuild]_vars

\* the device catalog alone
SpecCatalog == Init /\ [][NextCatalog]_vars

\* the device operations alone
SpecDevice == Init /\ [][NextDevice]_vars

\* the run pipeline: the extension is activated with a project, a scheme
\* and a device selected; build, run and stop commands, the events of the
\* build subprocess, and runApp
InitRun ==
    /\ logProcess = Null
    /\ stdoutLogProcess = Null
    /\ logProcessId = 0
    /\ logProcs = <<>>
    /\ onCloseCalled = FALSE
    /\ activated = TRUE
    /\ currentProject = "App"
    /\ schemes = SchemesOf("App")
    /\ currentScheme \in schemes
    /\ currentDevice \in Devices
    /\ isBuilding = FALSE
    /\ currentBuildProcess = Null
    /\ runs = <<>>
    /\ runCount = 0
    /\ observed = NoObserved
    /\ catalog = NoCatalog
    /\ deviceOp = NoDeviceOp
    /\ sorting = NoSorting
    /\ pending = <<>>
    /\ last = NoStep

NextRun ==
    \/ \E cmd \in RunCommands, ok \in BOOLEAN : RunBuild(cmd.runAfterBuild, cmd.clean, ok)
    \/ StopCommand
    \/ \E r \in RunIds, code \in ExitCodes \cup {SpawnFailureCode},
          appPath \in {NoPath, <<<<"App", ".app">>>>}, error \in {GenericError, <<"m1">>} :
           BuildClose(r, code, PatternThrows(currentScheme), appPath, error)
               /\ UNCHANGED <<observed, managerVars, pending>>
    \/ \E r \in RunIds : BuildError(r)
    \/ \E r \in RunIds, outcome \in ExecOutcomes : RunAppExecDone(r, outcome)
    \/ \E r \in RunIds, found \in BOOLEAN, ok \in BOOLEAN : RunAppBundleId(r, found, ok)

SpecRun == InitRun /\ [][NextRun]_vars

\* the comparator of simulator/list.ts on any three simulators
InitSort ==
    /\ logProcess = Null
    /\ stdoutLogProcess = Null
    /\ logProcessId = 0
    /\ logProcs = <<>>
    /\ onCloseCalled = FALSE
    /\ activated = FALSE
    /\ currentProject = Undefined
    /\ schemes = {}
    /\ currentScheme = Undefined
    /\ currentDevice = NoDevice
    /\ isBuilding = FALSE
    /\ currentBuildProcess = Null
    /\ runs = <<>>
    /\ runCount = 0
    /\ observed = NoObserved
    /\ catalog = NoCatalog
    /\ deviceOp = NoDeviceOp
    /\ \E a \in ListedSimulators, b \in ListedSimulators, c \in ListedSimulators :
           sorting = [NoSorting EXCEPT !.pc = "compare", !.sims = <<a, b, c>>]
    /\ pending = <<>>
    /\ last = NoStep

NextSort == Compare

SpecSort == InitSort /\ [][NextSort]_vars

\* the run pipeline up to the deactivation of the extension
NextLifecycle ==
    \/ NextRun
    \/ Deactivate

SpecLifecycle == InitRun /\ [][NextLifecycle]_vars

\* the selections under concurrent commands: the extension is activated with
\* the project App; build commands up to the build() call, the refresh,
\* selectScheme and selectSimulator commands and workspace-folder changes
AllSchemes == UNION {SchemesOf(p) : p \in WorkspaceProjects}

InitSelect ==
    /\ logProcess = Null
    /\ stdoutLogProcess = Null
    /\ logProcessId = 0
    /\ logProcs = <<>>
    /\ onCloseCalled = FALSE
    /\ activated = TRUE
    /\ currentProject = "App"
    /\ schemes = SchemesOf("App")
    /\ currentScheme \in schemes \cup {Undefined}
    /\ currentDevice \in Devices \cup {NoDevice}
    /\ isBuilding = FALSE
    /\ currentBuildProcess = Null
    /\ runs = <<>>
    /\ runCount = 0
    /\ observed = NoObserved
    /\ catalog = NoCatalog
    /\ deviceOp = NoDeviceOp
    /\ sorting = NoSorting
    /\ pending = <<>>
    /\ last = NoStep

PendingIds == 1..MaxPending

NextSelect ==
    \/ RunBuild(FALSE, FALSE, TRUE)
    \/ \E r \in RunIds, listed \in SUBSET AllSchemes :
           GetSchemesDone(r, listed, TRUE)
    \/ \E r \in RunIds, selected \in AllSchemes \cup {Undefined} :
           PickSchemeDone(r, selected, TRUE)
    \/ \E r \in RunIds, devices \in SUBSET Devices :
           ListDevicesDone(r, devices, TRUE)
    \/ \E r \in RunIds, selected \in Devices \cup {NoDevice} :
           PickDeviceDone(r, selected, TRUE)
    \/ RefreshCommand
    \/ \E i \in PendingIds, found \in SUBSET WorkspaceProjects : RefreshProjectsDone(i, found)
    \/ \E i \in PendingIds, listed \in SUBSET AllSchemes : RefreshSchemesDone(i, listed)
    \/ SelectSchemeCommand
    \/ \E i \in PendingIds, listed \in SUBSET AllSchemes : SelectSchemesDone(i, listed)
    \/ \E i \in PendingIds, selected \in AllSchemes \cup {Undefined} :
           SelectSchemePicked(i, selected)
    \/ SelectDeviceCommand
    \/ \E i \in PendingIds, devices \in SUBSET Devices : SelectDevicesDone(i, devices)
    \/ \E i \in PendingIds, selected \in Devices \cup {NoDevice} :
           SelectDevicePicked(i, selected)
    \/ InitializeCommand
    \/ \E i \in PendingIds, found \in SUBSET WorkspaceProjects :
           InitializeProjectsDone(i, found)
    \/ \E i \in PendingIds, picked \in WorkspaceProjects \cup {Undefined} :
           InitializeProjectPicked(i, picked)
    \/ \E i \in PendingIds, listed \in SUBSET AllSchemes,
          savedScheme \in AllSchemes \cup {Undefined}, autoSelect \in BOOLEAN,
          savedDevice \in Devices \cup {NoDevice} :
           InitializeSchemesDone(i, listed, savedScheme, autoSelect, savedDevice)

SpecSelect == InitSelect /\ [][NextSelect]_vars

\* ------------------------------------------- one build() call in detail
\* the build() call of the first runBuild invocation, with what SpecBuild
\* leaves to its inputs: the text the subprocess writes, which build() keeps
\* in buildOutput and errorOutput, and the onProgress messages it sends
ObservedRun == 1

\* the projects build() may be called for: one whose scheme name is plain
\* and one whose scheme name holds pattern syntax
ObservedProjects == {"App", "Lib"}

\* `${options.scheme}.app`
AppFile(scheme) == Spell(scheme) \o <<".app">>

\* productDir
ProductDir(device) ==
    IF device.type = "simulator" THEN <<"Debug-iphonesimulator">> ELSE <<"Debug-iphoneos">>

\* a line that names a path
Touch(path) == [word |-> "Touch", path |-> path]

\* the lines xcodebuild may write on stdout: phase lines, another line, and
\* lines naming the app in two build directories, the app built for a
\* device, another app, and a path with nothing before the product directory
StdoutLines == {Text("Compile"), Text("Link"), Text("note")}

PathLines ==
    { Touch(<<<<"dd">>,  <<"Debug-iphonesimulator">>, <<"App", "Scheme", ".app">>>>),
      Touch(<<<<"tmp">>, <<"Debug-iphonesimulator">>, <<"App", "Scheme", ".app">>>>),
      Touch(<<<<"dd">>,  <<"Debug-iphoneos">>,        <<"App", "Scheme", ".app">>>>),
      Touch(<<<<"dd">>,  <<"Debug-iphonesimulator">>, <<"App", ".app">>>>),
      Touch(<<<<"Debug-iphonesimulator">>, <<"App", "Scheme", ".app">>>>) }

\* the chunks a stdout 'data' event may carry: one line or two
StdoutChunks ==
    {<<l>> : l \in StdoutLines \cup PathLines} \cup {<<l, m>> : l, m \in StdoutLines}

\* the tokens of stderr text and the chunks a stderr 'data' event may carry
StderrTokens == {"error: ", "m1", "m2", "\n"}
StderrChunks == {<<t>> : t \in StderrTokens} \cup {<<t, u>> : t, u \in StderrTokens}

\* what fs.readdirSync(defaultDerivedData) may give: it throws, or it lists
\* directories named after the scheme, after the project, or after neither
DirScheme  == <<"App", "Scheme", "-a">>
DirProject == <<"App", "-b">>
DirOther   == <<"Pods", "-c">>
Listings ==
    { [ok |-> FALSE, names |-> <<>>],
      [ok |-> TRUE,  names |-> <<>>],
      [ok |-> TRUE,  names |-> <<DirOther>>],
      [ok |-> TRUE,  names |-> <<DirOther, DirProject, DirScheme>>],
      [ok |-> TRUE,  names |-> <<DirScheme, DirProject>>] }

\* simbuild.derivedDataPath: not configured, or a directory
DerivedDataPaths == {<<>>, <<<<"custom">>>>}

\* path.join(homeDir, 'Library/Developer/Xcode/DerivedData')
DefaultDerivedData == <<<<"HOME">>, <<"Library">>, <<"Developer">>, <<"Xcode">>, <<"DerivedData">>>>

\* d.startsWith(name)
StartsWith(d, name) == Len(name) <= Len(d) /\ SubSeq(d, 1, Len(name)) = name

\* /(\/[^\s]+\/${productDir}\/${scheme}\.app)(?:\s|$)/m on one path: it ends
\* with productDir/scheme.app and something precedes the product directory
MatchesApp(path, productDir, scheme) ==
    /\ Len(path) >= 3
    /\ path[Len(path)] = AppFile(scheme)
    /\ path[Len(path) - 1] = productDir

\* buildOutput.match(...)?.[1]: the first path of the output that matches
RECURSIVE OutputAppPath(_, _, _)
OutputAppPath(lines, productDir, scheme) ==
    IF lines = <<>> THEN NoPath
    ELSE IF MatchesApp(Head(lines).path, productDir, scheme) THEN Head(lines).path
    ELSE OutputAppPath(Tail(lines), productDir, scheme)

\* dirs.find(d => d.startsWith(scheme) || d.startsWith(project.name))
RECURSIVE FindProjectDir(_, _, _)
FindProjectDir(names, scheme, project) ==
    IF names = <<>> THEN <<>>
    ELSE IF StartsWith(Head(names), Spell(scheme)) \/ StartsWith(Head(names), Spell(project))
         THEN Head(names)
    ELSE FindProjectDir(Tail(names), scheme, project)

\* the close handler's appPath on exit code 0
ResolveAppPath(output, options, listing) ==
    LET productDir == ProductDir(options.device)
        canonical  == <<<<"Build">>, <<"Products">>, productDir, AppFile(options.scheme)>>
        matched    == OutputAppPath(output, productDir, options.scheme)
        projectDir == FindProjectDir(listing.names, options.scheme, options.project)
    IN  IF matched # NoPath THEN matched
        ELSE IF options.derivedDataPath # <<>> THEN options.derivedDataPath \o canonical
        ELSE IF ~listing.ok \/ projectDir = <<>> THEN NoPath
        ELSE DefaultDerivedData \o <<projectDir>> \o canonical

\* the tokens up to the end of the line
RECURSIVE TakeLine(_)
TakeLine(text) ==
    IF text = <<>> \/ Head(text) = "\n" THEN <<>>
    ELSE <<Head(text)>> \o TakeLine(Tail(text))

\* errorOutput.match(/error: (.+)/)?.[1]
RECURSIVE ErrorMatch(_)
ErrorMatch(text) ==
    IF text = <<>> THEN <<>>
    ELSE IF Head(text) = "error: " /\ TakeLine(Tail(text)) # <<>> THEN TakeLine(Tail(text))
    ELSE ErrorMatch(Tail(text))

\* errorMatch?.[1] || 'Build failed'
ExtractErrorGeneric(text) == GenericError

ExtractError(text) == IF ErrorMatch(text) = <<>> THEN GenericError ELSE ErrorMatch(text)

\* the onProgress messages among the calls of a step
RECURSIVE ProgressOf(_)
ProgressOf(calls) ==
    IF calls = <<>> THEN <<>>
    ELSE (IF Head(calls).cb = "onProgress" THEN <<Head(calls).arg[1]>> ELSE <<>>)
         \o ProgressOf(Tail(calls))

ObservedStdout(chunk) ==
    /\ Len(observed.buildOutput) + Len(observed.errorOutput) + Len(chunk) <= MaxOutput
    /\ BuildStdout(ObservedRun, chunk)
    /\ observed' = [observed EXCEPT !.buildOutput = @ \o chunk,
                                    !.progress = @ \o ProgressOf(last'.calls)]
    /\ UNCHANGED <<managerVars, pending>>

ObservedStderr(chunk) ==
    /\ Len(observed.buildOutput) + Len(observed.errorOutput) + Len(chunk) <= MaxOutput
    /\ BuildStderr(ObservedRun)
    /\ observed' = [observed EXCEPT !.errorOutput = @ \o chunk]
    /\ UNCHANGED <<managerVars, pending>>

\* the close handler gets as far as fs.readdirSync
ReadsListing(code, output, options) ==
    /\ code = "0"
    /\ ~PatternThrows(options.scheme)
    /\ OutputAppPath(output, ProductDir(options.device), options.scheme) = NoPath
    /\ options.derivedDataPath = <<>>

\* listing: what readdirSync gives if the close handler calls it
ObservedClose(code, listing) ==
    /\ BuildClose(ObservedRun, code, PatternThrows(observed.options.scheme),
                  ResolveAppPath(observed.buildOutput, observed.options, listing),
                  ExtractError(observed.errorOutput))
    /\ observed' = [observed EXCEPT !.code = code,
                                    !.listing =
                        IF ReadsListing(code, observed.buildOutput, observed.options)
                        THEN listing ELSE @]
    /\ UNCHANGED <<managerVars, pending>>

\* runBuild has called build() for the project, scheme and device selected,
\* with simbuild.derivedDataPath as configured, and xcodebuild is running
InitOutput ==
    /\ logProcess = Null
    /\ stdoutLogProcess = Null
    /\ logProcessId = 0
    /\ logProcs = <<>>
    /\ onCloseCalled = FALSE
    /\ activated = TRUE
    /\ currentProject \in ObservedProjects
    /\ schemes = SchemesOf(currentProject)
    /\ currentScheme \in schemes
    /\ currentDevice \in Devices
    /\ isBuilding = TRUE
    /\ currentBuildProcess = ObservedRun
    /\ \E cmd \in RunCommands :
           runs = [r \in {ObservedRun} |->
                      Locals([NewRun(cmd.runAfterBuild, cmd.clean)
                                  EXCEPT !.pc = "build", !.spawned = TRUE, !.spawnOk = TRUE])]
    /\ runCount = 1
    /\ \E derivedDataPath \in DerivedDataPaths :
           observed = [NoObserved EXCEPT !.options.project = currentProject,
                                         !.options.scheme = currentScheme,
                                         !.options.device = currentDevice,
                                         !.options.derivedDataPath = derivedDataPath]
    /\ catalog = NoCatalog
    /\ deviceOp = NoDeviceOp
    /\ sorting = NoSorting
    /\ pending = <<>>
    /\ last = BuildStep("runBuild", ObservedRun, FALSE, <<>>, {},
                        [NoInfo EXCEPT !.spawned = TRUE])

NextOutput ==
    \/ \E chunk \in StdoutChunks : ObservedStdout(chunk)
    \/ \E chunk \in StderrChunks : ObservedStderr(chunk)
    \/ \E code \in ExitCodes, listing \in Listings : ObservedClose(code, listing)

SpecOutput == InitOutput /\ [][NextOutput]_vars

\* ------------------------------------------------- log-stream claims
LogEventOps == {"stdout", "stderr", "close", "error"}

\* the subprocesses of the current generation that have not closed
CurrentOpen == {p \in DOMAIN logProcs : logProcs[p].gen = logProcessId /\ ~logProcs[p].closed}

LiveOf(stream) ==
    {p \in DOMAIN logProcs : Live(logProcs[p]) /\ logProcs[p].stream = stream}

\* C1: once a later startLogStream call has been made, an event (stdout,
\* stderr, close, error) of a subprocess of an earlier call invokes no
\* callback and leaves logProcess and stdoutLogProcess as they were.
C1_StaleCallbacksSuppressed ==
    [][ (last'.op \in LogEventOps /\ last'.gen < logProcessId)
            => /\ last'.calls = <<>>
               /\ logProcess' = logProcess
               /\ stdoutLogProcess' = stdoutLogProcess ]_vars

\* a superseded subprocess has just delivered its close event while the
\* stream that replaced it holds a handle
C1_Witness ==
    /\ last.op = "close"
    /\ last.gen < logProcessId
    /\ IsLogStreamRunning

\* C2: at most one process-output and at most one system-log subprocess is
\* live and unsignalled; every subprocess of an earlier startLogStream call
\* has closed or been sent SIGTERM, and the handles refer only to
\* subprocesses of the latest call.
C2_AtMostOneLogStream ==
    /\ Cardinality(LiveOf("process-output")) <= 1
    /\ Cardinality(LiveOf("system-log")) <= 1
    /\ \A p \in DOMAIN logProcs : logProcs[p].gen < logProcessId => ~Live(logProcs[p])
    /\ \A h \in {logProcess, stdoutLogProcess} \ {Null} : logProcs[h].gen = logProcessId

\* a start has replaced a stream whose subprocess was sent SIGTERM and has
\* not exited yet, and the new stream's subprocess is live
C2_Witness ==
    /\ last.op = "startLogStream"
    /\ last.sigterm # {}
    /\ \E p \in DOMAIN logProcs :
           /\ logProcs[p].gen < logProcessId
           /\ logProcs[p].spawnOk
           /\ logProcs[p].killSignal = "SIGTERM"
    /\ \E q \in DOMAIN logProcs : logProcs[q].gen = logProcessId /\ Live(logProcs[q])

\* a subprocess counts as running until it reports a spawn failure, closes
\* or is sent a signal
Running(proc) == ~proc.closed /\ ~proc.errored /\ proc.killSignal = "none"

\* C5: stopLogStream() returns true if and only if a log subprocess was
\* running (not yet exited) when it was called.
C5_StopReturnsTrueIffRunning ==
    [][ last'.op = "stopLogStream"
            => (last'.ret <=> \E p \in DOMAIN logProcs : Running(logProcs[p])) ]_vars

\* C6: right after stopLogStream() both handles are null,
\* isLogStreamRunning() is false, and kill('SIGTERM') was called on every
\* subprocess a handle held.
C6_StopClearsBothHandles ==
    [][ last'.op = "stopLogStream"
            => /\ logProcess' = Null
               /\ stdoutLogProcess' = Null
               /\ ~IsLogStreamRunning'
               /\ \A p \in {logProcess, stdoutLogProcess} \ {Null} :
                      /\ p \in last'.sigterm
                      /\ p \in DOMAIN logProcs' => logProcs'[p].killSignal = "SIGTERM" ]_vars

\* stopLogStream has just stopped a stream that held two subprocesses
C6_Witness ==
    /\ last.op = "stopLogStream"
    /\ last.ret
    /\ Cardinality(last.sigterm) = 2
    /\ ~IsLogStreamRunning

\* C8: after a close event under the current generation the closed
\* subprocess is in no slot, and once every subprocess of the stream has
\* closed isLogStreamRunning() is false.
C8_SlotIdleAfterClose ==
    (last.op = "close" /\ last.gen = logProcessId)
        => /\ last.proc \notin {logProcess, stdoutLogProcess}
           /\ (CurrentOpen = {} => ~IsLogStreamRunning)

\* C9: after an error event under the current generation onError was
\* invoked, the failed subprocess is in no slot, and if no other slot is
\* active isLogStreamRunning() is false.
C9_SlotIdleAfterError ==
    (last.op = "error" /\ last.gen = logProcessId)
        => /\ \E i \in 1..Len(last.calls) : last.calls[i].cb = "onError"
           /\ last.proc \notin {logProcess, stdoutLogProcess}
           /\ ({logProcess, stdoutLogProcess} \ {Null, last.proc} = {} => ~IsLogStreamRunning)

BuildRunning(rec) ==
    rec.spawned /\ ~rec.closed /\ ~rec.errored /\ rec.killSignal = "none"

\* C3: at most one xcodebuild subprocess spawned by build() is live (spawned,
\* not closed, not sent SIGTERM) at any time.
C3_AtMostOneBuild ==
    Cardinality({r \in DOMAIN runs : BuildLive(runs[r])}) <= 1

\* C4: stopBuild() returns true if and only if a build subprocess is live at
\* the time of the call.
C4_StopBuildTrueIffLive ==
    [][ last'.op = "stopBuild"
            => (last'.ret <=> \E r \in DOMAIN runs : BuildRunning(runs[r])) ]_vars

\* the number of times a step handed a BuildResult to runBuild
RECURSIVE Delivered(_)
Delivered(calls) ==
    IF calls = <<>> THEN 0
    ELSE (IF Head(calls).cb = "result" THEN 1 ELSE 0) + Delivered(Tail(calls))

BuildEventOps == {"build.close", "build.error"}

\* C7: each build() invocation produces its BuildResult exactly once: the
\* first close or error event of its subprocess delivers it, a later event
\* of the same subprocess delivers nothing, no other step delivers one, and
\* after a close or error event the result has been produced.
C7_ResultProducedOnce ==
    [][ /\ last'.op \in BuildEventOps
            => /\ Delivered(last'.calls) = IF runs[last'.proc].settled THEN 0 ELSE 1
               /\ last'.info.settledAfter
        /\ last'.op \notin BuildEventOps => Delivered(last'.calls) = 0 ]_vars

C12_NoCallbackAfterOnClose ==
    [][ last'.op \in LogEventOps
            => \A i \in Invoked(last'.calls, "onLog") \cup Invoked(last'.calls, "onError") :
                   /\ last'.calls[i].gen = logProcessId
                   /\ ~onCloseCalled ]_vars

\* C13: after stopLogStream() and before any new startLogStream, a stdout,
\* stderr or close event of a subprocess that stopLogStream terminated
\* invokes no callback.
C13_TrailingOutputIgnored ==
    [][ ( /\ last'.op \in {"stdout", "stderr", "close"}
          /\ last'.gen = logProcessId
          /\ logProcs[last'.proc].killSignal = "SIGTERM" )
            => last'.calls = <<>> ]_vars

\* C14: when startLogStream returns, 'stdout' mode occupies only
\* stdoutLogProcess, 'system' mode only logProcess, and 'both' mode both
\* slots with two distinct subprocesses, for either target kind.
C14_SlotOccupancyMatchesMode ==
    last.op = "startLogStream"
        => /\ last.mode = "stdout" => stdoutLogProcess # Null /\ logProcess = Null
           /\ last.mode = "system" => stdoutLogProcess = Null /\ logProcess # Null
           /\ last.mode = "both"   => /\ stdoutLogProcess # Null
                                      /\ logProcess # Null
                                      /\ stdoutLogProcess # logProcess

\* C15: every non-blank stderr line of a process-output subprocess is
\* delivered to onLog tagged as stderr, and onError is invoked only by an
\* 'error' event.
C15_StderrGoesToOnLog ==
    [][ /\ ( /\ last'.op = "stderr"
             /\ last'.gen = logProcessId
             /\ logProcs[last'.proc].stream = "process-output" )
            => \E c \in Chunks :
                   last'.calls = LogLines(SplitLines(c), last'.gen, "[stderr] ")
        /\ (last'.op \in LogEventOps /\ Invoked(last'.calls, "onError") # {})
            => last'.op = "error" ]_vars

\* C16: logProcessId is incremented by exactly one by every startLogStream
\* call and changed by no other operation or event, so it never decreases.
C16_GenerationCounter ==
    [][ /\ last'.op = "startLogStream" => logProcessId' = logProcessId + 1
        /\ last'.op # "startLogStream" => logProcessId' = logProcessId
        /\ logProcessId' >= logProcessId ]_vars

\* a second stream was started after the first one was stopped and its
\* subprocess closed: the counter went 0, 1, 2
C16_Witness ==
    /\ last.op = "startLogStream"
    /\ last.gen = 2
    /\ logProcessId = 2
    /\ last.sigterm = {}

\* ------------------------------------------------- build output claims
\* the phase keywords at the start of lines, in order
RECURSIVE PhaseWords(_)
PhaseWords(lines) ==
    IF lines = <<>> THEN <<>>
    ELSE (IF Head(lines).word \in PhaseKeywords THEN <<Head(lines).word>> ELSE <<>>)
         \o PhaseWords(Tail(lines))

\* a sequence with consecutive repeats removed
RECURSIVE Squeeze(_)
Squeeze(seq) ==
    IF Len(seq) <= 1 THEN seq
    ELSE IF seq[1] = seq[2] THEN Squeeze(Tail(seq))
    ELSE <<seq[1]>> \o Squeeze(Tail(seq))

\* C17: whatever the chunking of the stdout lines, the onProgress calls are
\* exactly the phase keywords found at line starts, consecutive repeats
\* removed.
C17_ProgressPerPhaseTransition ==
    observed.progress = Squeeze(PhaseWords(observed.buildOutput))

\* the least element of a set of numbers
SetMin(S) == CHOOSE x \in S : \A y \in S : x <= y

\* C18: on exit code 0 the build succeeds with the first path of the stdout
\* that matches; if there is none, with the canonical path under
\* derivedDataPath when it is configured; if it is not, with the canonical
\* path under the first listed DerivedData directory whose name starts with
\* the scheme or project name; and with no appPath if none applies.
C18_ArtifactPathPriority ==
    (last.op = "build.close" /\ observed.code = "0")
        => LET out        == observed.buildOutput
               options    == observed.options
               productDir == ProductDir(options.device)
               canonical  == <<<<"Build">>, <<"Products">>, productDir,
                               AppFile(options.scheme)>>
               hits       == {i \in 1..Len(out) :
                                 MatchesApp(out[i].path, productDir, options.scheme)}
               names      == observed.listing.names
               candidates == {j \in 1..Len(names) :
                                 \/ StartsWith(names[j], Spell(options.scheme))
                                 \/ StartsWith(names[j], Spell(options.project))}
               result     == last.info.resolved
           IN  /\ result.defined /\ result.success
               /\ result.appPath =
                      IF hits # {} THEN out[SetMin(hits)].path
                      ELSE IF options.derivedDataPath # <<>>
                           THEN options.derivedDataPath \o canonical
                      ELSE IF observed.listing.ok /\ candidates # {}
                           THEN DefaultDerivedData \o <<names[SetMin(candidates)]>> \o canonical
                      ELSE NoPath

\* C19: on a nonzero exit the build fails with the message of the first
\* 'error: <message>' occurrence in the accumulated stderr text, or with
\* 'Build failed' if there is none.
C19_ErrorFromStderr ==
    (last.op = "build.close" /\ observed.code \notin {"", "0"})
        => LET text   == observed.errorOutput
               occ    == {i \in 1..(Len(text) - 1) :
                             text[i] = "error: " /\ text[i + 1] # "\n"}
               first  == SetMin(occ)
               ends   == {j \in (first + 1)..Len(text) : text[j] = "\n"}
               stop   == IF ends = {} THEN Len(text) ELSE SetMin(ends) - 1
               result == last.info.resolved
           IN  /\ result.defined /\ ~result.success
               /\ result.error = IF occ = {} THEN GenericError
                                 ELSE SubSeq(text, first + 1, stop)

\* a failed build has reported the message of an 'error: ' that is not at
\* the start of its stderr text
C19_Witness ==
    /\ last.op = "build.close"
    /\ observed.code = "65"
    /\ Len(observed.errorOutput) = 3
    /\ observed.errorOutput[1] # "error: "
    /\ last.info.resolved.error = <<observed.errorOutput[3]>>

\* C20: no handler of build() lets an exception escape, and the error event
\* of a subprocess that could not be spawned resolves the promise with
\* success=false, no appPath and the spawn error's message, and leaves
\* currentBuildProcess null.
C20_FailuresAreValues ==
    [][ /\ last'.op \in BuildEventOps
            => Invoked(last'.calls, "uncaughtException") = {}
        /\ last'.op = "build.error"
            => /\ last'.info.resolved = Result(FALSE, NoPath, SpawnError)
               /\ last'.info.settledAfter
               /\ currentBuildProcess' = Null ]_vars

\* ------------------------------------------------------ catalog claims
\* the simulators and the physical devices of a catalog, in catalog order
IsSimulator(d) == d.type = "simulator"
IsPhysical(d)  == d.type = "device"
SimulatorsIn(devices) == SelectSeq(devices, IsSimulator)
PhysicalIn(devices)   == SelectSeq(devices, IsPhysical)

\* a.name.localeCompare(b.name) < 0 on the names of the model
NameRank(name) == CASE name = "iPhone 15" -> 1 [] name = "iPhone SE" -> 2 [] OTHER -> 3

\* a must come before b: booted before not booted, then the higher
\* version (major, then minor), then the lower name
MustPrecede(a, b) ==
    LET sameBoot == (a.state = "Booted") <=> (b.state = "Booted")
        known    == a.osVersion # UnknownVersion /\ b.osVersion # UnknownVersion
    IN  \/ a.state = "Booted" /\ b.state # "Booted"
        \/ /\ sameBoot /\ known
           /\ \/ a.osVersion[1] > b.osVersion[1]
              \/ a.osVersion[1] = b.osVersion[1] /\ a.osVersion[2] > b.osVersion[2]
        \/ sameBoot /\ a.osVersion = b.osVersion /\ NameRank(a.name) < NameRank(b.name)

\* C21: in the sequence listAllDevices returns, the simulators are ordered
\* booted first, then by version descending, then by name ascending.
C21_CatalogOrder ==
    catalog.pc = "done"
        => LET sims == SimulatorsIn(catalog.result)
           IN  \A i, j \in 1..Len(sims) : i < j => ~MustPrecede(sims[j], sims[i])

\* C22: listAllDevices never raises; whatever the simctl query did, the
\* result holds the physical devices the device queries gave, and whatever
\* the device queries did, it holds the simulators the simctl query gave.
C22_CatalogFailureIsolation ==
    /\ catalog.pc # "raised"
    /\ catalog.pc = "done"
        => /\ SimulatorsIn(catalog.result) =
                  IF catalog.simctl.kind = "ok" THEN SimulatorsOf(catalog.simctl.entries)
                  ELSE <<>>
           /\ PhysicalIn(catalog.result) =
                  IF catalog.modern.kind = "ok" /\ ConnectedOf(catalog.modern.devices) # <<>>
                  THEN ConnectedOf(catalog.modern.devices)
                  ELSE IF catalog.legacy.kind = "ok" THEN ParsedLines(catalog.legacy.lines)
                  ELSE <<>>

\* the simctl query failed and the catalog still holds a physical device
C22_Witness ==
    /\ catalog.pc = "done"
    /\ catalog.simctl.kind \in {"fail", "malformed"}
    /\ PhysicalIn(catalog.result) # <<>>
    /\ SimulatorsIn(catalog.result) = <<>>

\* C23: the devicectl query is made before any xctrace query; the xctrace
\* query is made exactly if the devicectl query gave no device (or failed);
\* the physical devices of the result all come from one of the two.
C23_ModernThenLegacy ==
    LET asked(q) == \E i \in 1..Len(catalog.queries) : catalog.queries[i] = q
    IN  /\ \A i, j \in 1..Len(catalog.queries) :
               (catalog.queries[i] = "xctrace" /\ catalog.queries[j] = "devicectl") => j < i
        /\ asked("xctrace") => asked("devicectl")
        /\ catalog.pc \in {"xctrace", "done"}
               => (asked("xctrace") <=> DevicectlDevices(catalog.modern) = <<>>)
        /\ catalog.pc = "done"
               => \/ PhysicalIn(catalog.result) = DevicectlDevices(catalog.modern)
                  \/ /\ DevicectlDevices(catalog.modern) = <<>>
                     /\ PhysicalIn(catalog.result) = InstrumentsDevices(catalog.legacy)

\* the devicectl query failed and the device of the catalog comes from the
\* xctrace query
C23_Witness ==
    /\ catalog.pc = "done"
    /\ catalog.modern.kind = "fail"
    /\ catalog.queries = <<"simctl", "devicectl", "xctrace">>
    /\ PhysicalIn(catalog.result) = ParsedLines(catalog.legacy.lines)
    /\ PhysicalIn(catalog.result) # <<>>

\* ------------------------------------------- device operation claims
\* C24: bootSimulator returns without raising when the boot command
\* succeeds or fails with the already-booted message; it raises every other
\* error of the boot command, unchanged.
C24_BootSuppressesAlreadyBooted ==
    (deviceOp.op = "bootSimulator" /\ deviceOp.pc = "done")
        => LET o == deviceOp.outcomes[1]
               alreadyBooted == /\ o.hasMessage
                                /\ \E i \in 1..Len(o.message) : o.message[i] = AlreadyBootedText
           IN  /\ deviceOp.commands = <<"simctl boot">>
               /\ deviceOp.raised <=> (~o.ok /\ ~alreadyBooted)
               /\ deviceOp.raised => deviceOp.error = o

\* bootSimulator has returned normally although the boot command failed
C24_Witness ==
    /\ deviceOp.op = "bootSimulator"
    /\ deviceOp.pc = "done"
    /\ ~deviceOp.raised
    /\ ~deviceOp.outcomes[1].ok

\* C25: installApp and launchApp run one command for a simulator and raise
\* its error; for a physical device they run the devicectl command and,
\* exactly if it failed, the ios-deploy command once, whose error they
\* raise; no command is run twice.
C25_SingleFallback ==
    deviceOp.op \in {"installApp", "launchApp"}
        => LET cs == deviceOp.commands
               os == deviceOp.outcomes
           IN  /\ Len(cs) \in 1..2
               /\ \A i, j \in 1..Len(cs) : i # j => cs[i] # cs[j]
               /\ cs[1] = FirstCommand(deviceOp.op, deviceOp.device)
               /\ Len(cs) = 2
                      => /\ deviceOp.device.type = "device"
                         /\ ~os[1].ok
                         /\ cs[2] = FallbackCommand(deviceOp.op)
               /\ deviceOp.pc = "done"
                      => /\ (deviceOp.device.type = "device" /\ ~os[1].ok) => Len(cs) = 2
                         /\ deviceOp.raised <=> ~os[Len(os)].ok
                         /\ deviceOp.raised => deviceOp.error = os[Len(os)]

\* installApp for a physical device has raised the error of the ios-deploy
\* command it ran after the devicectl command failed
C25_Witness ==
    /\ deviceOp.op = "installApp"
    /\ deviceOp.device.type = "device"
    /\ deviceOp.pc = "done"
    /\ deviceOp.commands = <<"devicectl install", "ios-deploy install">>
    /\ deviceOp.raised
    /\ deviceOp.error # deviceOp.outcomes[1]

\* an error that says the app is not running
NotRunningClass(error) ==
    error.hasMessage /\ \E i \in 1..Len(error.message) :
                            error.message[i] = "found nothing to terminate"

\* C26: terminateApp runs no command for a physical device; for a simulator
\* it returns without raising when the terminate command succeeds or fails
\* because the app is not running, and raises every other error unchanged.
C26_TerminateSuppressesNotRunningOnly ==
    (deviceOp.op = "terminateApp" /\ deviceOp.pc = "done")
        => IF deviceOp.device.type = "device"
           THEN deviceOp.commands = <<>> /\ ~deviceOp.raised
           ELSE LET o == deviceOp.outcomes[1]
                IN  /\ deviceOp.raised <=> (~o.ok /\ ~NotRunningClass(o))
                    /\ deviceOp.raised => deviceOp.error = o

\* ------------------------------------------------------ pipeline claims
\* the operations and callbacks a step invoked
Ops(calls) == {calls[i].cb : i \in 1..Len(calls)}

PipelineOps == {"bootSimulator", "openSimulatorApp", "installApp", "getBundleIdentifier",
                "startLogStream"}

\* the operations of runApp an invocation has completed without error
Completed(rec) == {rec.completed[i] : i \in 1..Len(rec.completed)}

\* a failed command that ends the pipeline: any but a boot command that
\* says the simulator is booted already and a devicectl command, which
\* has a fallback
EndsPipeline(command, outcome) ==
    /\ ~outcome.ok
    /\ command = "simctl boot"
           => ~(outcome.hasMessage /\ Includes(outcome.message, AlreadyBootedText))
    /\ command # "devicectl install"

\* C27: a step of a run command invokes an operation of the pipeline only
\* if build() has resolved with success and an appPath; installApp only
\* after bootSimulator and openSimulatorApp completed when the device is a
\* simulator that is not booted; startLogStream only after installApp
\* completed and a bundle identifier was found; a failing command ends the
\* pipeline: nothing further is invoked.
C27_PipelineOrder ==
    [][ LET ops    == Ops(last'.calls)
            r      == last'.proc
            now    == "result" \in ops
            device == IF now THEN currentDevice ELSE runs[r].device
        IN  /\ ops \cap PipelineOps # {}
                   => /\ r \in DOMAIN runs
                      /\ IF now
                         THEN /\ last'.info.resolved.success
                              /\ last'.info.resolved.appPath # NoPath
                         ELSE runs[r].settled /\ runs[r].appPath # NoPath
            /\ "installApp" \in ops
                   => ((device.type = "simulator" /\ device.state # "Booted")
                          => /\ ~now
                             /\ {"bootSimulator", "openSimulatorApp"} \subseteq Completed(runs'[r]))
            /\ "startLogStream" \in ops
                   => /\ ~now
                      /\ "installApp" \in Completed(runs[r])
                      /\ \E i \in 1..Len(last'.calls) :
                             last'.calls[i].cb = "bundleId" /\ last'.calls[i].arg = <<"found">>
            /\ \A i \in 1..Len(last'.calls) :
                   (/\ last'.calls[i].cb = "execAsync"
                    /\ EndsPipeline(last'.calls[i].arg[1], last'.calls[i].arg[2]))
                       => /\ ops \cap PipelineOps = {}
                          /\ r \notin DOMAIN runs' ]_vars

\* runApp has started the console stream, which can only follow a build
\* that succeeded, an install and a bundle identifier
C27_Witness ==
    /\ last.op = "runApp"
    /\ "startLogStream" \in Ops(last.calls)
    /\ last.ret
    /\ logProcess # Null

\* C28: build() resolves with success=true exactly if the close event
\* carries exit code 0, and with no appPath otherwise; a close event of a
\* run whose promise is pending resolves it; and no operation of the
\* pipeline is invoked for a build that stopBuild sent SIGTERM.
C28_SuccessIffExitZero ==
    [][ LET ops == Ops(last'.calls)
            res == last'.info.resolved
        IN  /\ (last'.op \in BuildEventOps /\ "result" \in ops)
                   => /\ res.success <=> (last'.op = "build.close" /\ last'.info.code = "0")
                      /\ ~res.success => res.appPath = NoPath
            /\ (last'.op = "build.close" /\ ~last'.info.settledBefore) => "result" \in ops
            /\ ops \cap PipelineOps # {} => runs[last'.proc].killSignal = "none" ]_vars


\* C29: onClose is invoked at most once per startLogStream call: a step
\* invokes onClose at most once, only for the stream of the latest
\* startLogStream call, and only if it was not invoked for that stream before.
C29_OnCloseAtMostOnce ==
    [][ Invoked(last'.calls, "onClose") # {}
            => /\ Cardinality(Invoked(last'.calls, "onClose")) = 1
               /\ \A i \in Invoked(last'.calls, "onClose") : last'.calls[i].gen = logProcessId
               /\ ~onCloseCalled ]_vars

\* both subprocesses of a simulator stream in 'both' mode have closed under
\* their own generation: the process-output one earlier, the system-log one
\* in this step, which invoked onClose
C29_Witness ==
    /\ last.op = "close"
    /\ last.gen = logProcessId
    /\ last.devType = "simulator"
    /\ last.mode = "both"
    /\ last.proc = 2 * last.gen
    /\ (2 * last.gen - 1) \notin DOMAIN logProcs
    /\ Invoked(last.calls, "onClose") # {}
    /\ onCloseCalled


\* ---------------------------------------------- build options claim
\* C30: whenever runBuild invokes build(), the project, the scheme and the
\* device it passes are all defined.
C30_BuildOptionsDefined ==
    [][ \A i \in Invoked(last'.calls, "build") :
            /\ last'.calls[i].arg[1] # Undefined
            /\ last'.calls[i].arg[2] # Undefined
            /\ last'.calls[i].arg[3] # NoDevice ]_vars


\* ------------------------------------------------ selection claims
\* C31: the selected scheme belongs to the scheme list most recently loaded
\* for the current project: when a step has loaded the scheme list of the
\* project that is then current, a scheme the status bar then holds is in
\* that list.
C31_SchemeInLoadedList ==
    [][ \A i \in Invoked(last'.calls, "getSchemes") :
            ( /\ last'.calls[i].arg[1] = currentProject'
              /\ currentScheme' # Undefined )
                => currentScheme' \in schemes' ]_vars


\* C32: whenever a build subprocess spawned through runBuild is live and has
\* not been stopped, the status bar is in building state.
C32_BuildingWhileLive ==
    (\E r \in DOMAIN runs : BuildLive(runs[r])) => isBuilding


\* C33: after deactivate() returns, every subprocess the extension was
\* tracking (through logProcess, stdoutLogProcess and currentBuildProcess)
\* has exited or been sent SIGTERM.
C33_DeactivateStopsTracked ==
    [][ last'.op = "deactivate"
            => /\ \A p \in {logProcess, stdoutLogProcess} \ {Null} :
                      p \in DOMAIN logProcs' => ~Live(logProcs'[p])
               /\ (currentBuildProcess # Null /\ currentBuildProcess \in DOMAIN runs')
                      => ~BuildLive(runs'[currentBuildProcess]) ]_vars


\* ------------------------------------------------ comparator claim
\* C34: the comparator of listSimulators is a consistent ordering of any
\* simulators it is given: comparing a with b gives the opposite sign of
\* comparing b with a, and if a does not come after b and b does not come
\* after c, then a does not come after c.
C34_ComparatorConsistent ==
    sorting.pc = "done"
        => \A i, j, k \in DOMAIN sorting.sims :
               /\ Sign(sorting.answers[i][j]) = 0 - Sign(sorting.answers[j][i])
               /\ (sorting.answers[i][j] <= 0 /\ sorting.answers[j][k] <= 0)
                      => sorting.answers[i][k] <= 0

====
